---- MODULE Spec2Model ----
(***************************************************************************)
(* Model of the okla-short clip pipeline: the per-item state machine of    *)
(* scripts/process_pipeline.py (main, process_single_video, the Gemini key *)
(* manager, call_gemini_api and its Hugging Face fallback) and the         *)
(* transcript credential store of scripts/transcript_manager.py.           *)
(*                                                                         *)
(* The specifications share the state and the actions; they differ in the *)
(* behaviours of the external services they let happen:                    *)
(*   Spec      main() over the pending items, every collaborator may fail; *)
(*   SpecChain main() with the AI providers answering in every way;        *)
(*   SpecFetch main() with the transcript provider answering in every way; *)
(*   SpecPools the public operations of the two credential pools called    *)
(*             in any order, with process restarts;                        *)
(*   SpecParse parse_gemini_response applied to every small response;      *)
(*   SpecBatch main() over BatchItems pending items, under fairness;       *)
(*   SpecRetry main() with the answers that cause retries, under fairness; *)
(*   SpecProv  fetch_transcript_with_retry with the provisioning workflow  *)
(*             taken step by step;                                         *)
(*   SpecWorkersAI, SpecWorkersFetch  several callers at once on one key   *)
(*             manager, on one credential store.                           *)
(***************************************************************************)
EXTENDS Integers, Sequences, FiniteSets, TLC

----------------------------------------------------------------------------
(* Bounds of the model *)

NumGeminiKeys == 2      \* entries of GEMINI_KEYS_JSON
MaxApiKeys == 3         \* rows of api_keys with service 'transcript_api'
MaxInitApiKeys == 2     \* rows present before the first run
NumItems == 1            \* rows of playlist_videos
BatchItems == 2          \* rows of playlist_videos in SpecBatch
NumWorkers == 2          \* callers at once in SpecWorkersAI, SpecWorkersFetch
MaxRuns == 1            \* invocations of main()
MaxOps == 4             \* pool operations in a behaviour of SpecPools
MaxRestarts == 1        \* restarts of the process in SpecPools
MaxSegs == 2            \* entries of a segments list in SpecParse
RotationKeys == 3        \* entries of GEMINI_KEYS_JSON in SpecRotation
MaxVideos == 2           \* video ids, and entries of a list given to save_videos_to_db

(* Program constants *)

MAX_GEMINI_RETRIES == 10
max_attempts == 3
max_retries == 3
NoKey == 0

Items == 1..NumItems
Workers == 1..NumWorkers
GeminiKeyIds == 1..NumGeminiKeys
ApiKeyIds == 1..MaxApiKeys

----------------------------------------------------------------------------
(* Small sequence helpers *)

RemoveAt(s, n) == [j \in 1..(Len(s) - 1) |-> IF j < n THEN s[j] ELSE s[j + 1]]

Range(s) == {s[j] : j \in 1..Len(s)}

----------------------------------------------------------------------------
(* GeminiKeyManager: keys is the working set (a list of key ids),          *)
(* current_index the 0-based rotation pointer.                             *)

\* __init__: string entries and dict entries with status 'active' are kept,
\* in order; the start index is random in [0, len-1], 0 for an empty list.
KMInitKeys(cfg) ==
    LET F[n \in 0..Len(cfg)] ==
          IF n = 0 THEN <<>>
          ELSE IF cfg[n].status = "active" THEN Append(F[n - 1], cfg[n].key)
               ELSE F[n - 1]
    IN F[Len(cfg)]

KMStartIndexes(ks) == IF Len(ks) > 0 THEN 0..(Len(ks) - 1) ELSE {0}

\* get_current_key: None for an empty list; resets an index past the end.
get_current_key(ks, idx) ==
    IF Len(ks) = 0 THEN [key |-> NoKey, current_index |-> idx]
    ELSE LET ci == IF idx >= Len(ks) THEN 0 ELSE idx
         IN [key |-> ks[ci + 1], current_index |-> ci]

\* rotate_key advancing by two at line 168
rotate_key_skips_one(ks, idx) ==
    IF Len(ks) > 0 THEN (idx + 2) % Len(ks) ELSE idx

\* rotate_key
rotate_key(ks, idx) ==
    IF Len(ks) > 0 THEN (idx + 1) % Len(ks) ELSE idx

\* disable_current_key without the reset of lines 179-180
disable_current_key_no_reset(ks, idx) ==
    IF Len(ks) > 0 /\ idx < Len(ks)
    THEN [keys |-> RemoveAt(ks, idx + 1), current_index |-> idx, disabled |-> {ks[idx + 1]}]
    ELSE [keys |-> ks, current_index |-> idx, disabled |-> {}]

\* disable_current_key: pops the current entry, index reset to 0 past the end
disable_current_key(ks, idx) ==
    IF Len(ks) > 0 /\ idx < Len(ks)
    THEN LET nk == RemoveAt(ks, idx + 1)
         IN [keys |-> nk,
             current_index |-> IF idx >= Len(nk) THEN 0 ELSE idx,
             disabled |-> {ks[idx + 1]}]
    ELSE [keys |-> ks, current_index |-> idx, disabled |-> {}]

----------------------------------------------------------------------------
(* Provider responses.  A response body is a dict; cand says whether it    *)
(* has candidates[0].content.parts[0].text, text names the text it holds.  *)

Texts == {"garbage", "obj_empty", "avail_true", "avail_false", "avail_null",
          "segs_ok", "segs_short", "segs_two", "segs_badtitle", "segs_baddesc"}

NoneResp == [ok |-> FALSE, cand |-> FALSE, text |-> ""]
Resp(t) == [ok |-> TRUE, cand |-> TRUE, text |-> t]
NoCandResp == [ok |-> TRUE, cand |-> FALSE, text |-> ""]

Bodies == {Resp(t) : t \in Texts} \cup {NoCandResp}

\* json.loads(text) succeeds
IsJson(t) == t # "garbage"

\* data.get('available', True)
AvailableField(t) ==
    CASE t = "avail_true" -> "True"
      [] t = "avail_false" -> "False"
      [] t = "avail_null" -> "None"
      [] OTHER -> "True"

\* data['segments'] for the texts that carry one
\* fields: all of start, end, title, description are present;
\* title_str / desc_str: the title / description is a string.
Seg(s, e, all4, ts, ds) ==
    [start |-> s, end |-> e, fields |-> all4, title_str |-> ts, desc_str |-> ds]

HasSegments(t) == t \in {"segs_ok", "segs_short", "segs_two", "segs_badtitle", "segs_baddesc"}

SegmentsField(t) ==
    CASE t = "segs_ok" -> <<Seg(60, 300, TRUE, TRUE, TRUE)>>
      [] t = "segs_short" -> <<Seg(0, 119, TRUE, TRUE, TRUE), Seg(10, 200, FALSE, TRUE, TRUE)>>
      [] t = "segs_two" -> <<Seg(0, 120, TRUE, TRUE, TRUE), Seg(300, 100, TRUE, TRUE, TRUE),
                             Seg(200, 500, TRUE, TRUE, TRUE)>>
      [] t = "segs_badtitle" -> <<Seg(0, 200, TRUE, FALSE, TRUE)>>
      [] t = "segs_baddesc" -> <<Seg(0, 200, TRUE, TRUE, TRUE), Seg(200, 400, TRUE, TRUE, FALSE)>>
      [] OTHER -> <<>>

\* Outcomes of one POST to the Gemini endpoint: a 200 body, an HTTPError
\* raised by raise_for_status, or another exception (timeout, connection).
GeminiStatuses == {400, 403, 429, 500, 503}

GeminiOk(t) == [kind |-> "ok", status |-> 200, body |-> Resp(t)]
GeminiHttp(st) == [kind |-> "http", status |-> st, body |-> NoneResp]
GeminiError == [kind |-> "error", status |-> 0, body |-> NoneResp]

GeminiOutcomes ==
    {[kind |-> "ok", status |-> 200, body |-> b] : b \in Bodies}
    \cup {GeminiHttp(st) : st \in GeminiStatuses}
    \cup {GeminiError}

HFOutcomes ==
    {[kind |-> "fail", text |-> ""]} \cup {[kind |-> "ok", text |-> t] : t \in Texts}

\* call_huggingface_api: the text wrapped in the Gemini shape, or None
call_huggingface_api(hfo) == IF hfo.kind = "ok" THEN Resp(hfo.text) ELSE NoneResp

\* Truth value of a requests.Response (Response.__bool__ is Response.ok):
\* false for every status that raise_for_status turns into an HTTPError.
ResponseBool(status) == status < 400

\* status_code = e.response.status_code if e.response else None  (0 is None)
HTTPErrorStatusCode(status) == IF ResponseBool(status) THEN status ELSE 0

\* call_gemini_api without the test of retry_count at line 265
call_gemini_api_no_budget(ks, idx, retry, out, hfo) ==
    LET g == get_current_key(ks, idx)
        ci == g.current_index
        base == [keys |-> ks, current_index |-> idx, retry_count |-> retry,
                 done |-> TRUE, ret |-> NoneResp, hf |-> 0, req |-> 0,
                 used |-> NoKey, disabled |-> {}, rot |-> 0]
        sent == [base EXCEPT !.current_index = ci, !.req = 1, !.used = g.key]
        backup(b) == [b EXCEPT !.ret = call_huggingface_api(hfo), !.hf = 1]
        status_code == HTTPErrorStatusCode(out.status)
        d == disable_current_key(ks, ci)
    IN IF g.key = NoKey THEN backup([base EXCEPT !.current_index = ci])
       ELSE CASE out.kind = "ok" -> [sent EXCEPT !.ret = out.body]
              [] out.kind = "http" ->
                   IF status_code \in {400, 403, 429, 503}
                   THEN IF status_code = 503
                        THEN IF Len(ks) > 0
                             THEN [sent EXCEPT !.current_index = rotate_key(ks, ci),
                                               !.rot = 1, !.retry_count = retry + 1,
                                               !.done = FALSE]
                             ELSE backup(sent)
                        ELSE IF Len(d.keys) > 0
                             THEN [sent EXCEPT !.keys = d.keys,
                                               !.current_index = rotate_key(d.keys, d.current_index),
                                               !.disabled = d.disabled,
                                               !.rot = 1, !.retry_count = retry + 1,
                                               !.done = FALSE]
                             ELSE [sent EXCEPT !.keys = d.keys,
                                               !.current_index = d.current_index,
                                               !.disabled = d.disabled]
                   ELSE sent
              [] OTHER ->
                   IF Len(ks) > 0
                   THEN [sent EXCEPT !.current_index = rotate_key(ks, ci),
                                     !.rot = 1, !.retry_count = retry + 1,
                                     !.done = FALSE]
                   ELSE sent

\* One invocation of call_gemini_api (the recursion is a tail call, so the
\* next invocation is the next step).  done: the invocation returned ret;
\* otherwise it re-invokes itself with retry_count.  hf, req, rot count the
\* secondary-provider calls, primary requests and rotate_key calls made by
\* this invocation; used is the key sent, disabled the keys it disabled.
call_gemini_api(ks, idx, retry, out, hfo) ==
    LET g == get_current_key(ks, idx)
        ci == g.current_index
        base == [keys |-> ks, current_index |-> idx, retry_count |-> retry,
                 done |-> TRUE, ret |-> NoneResp, hf |-> 0, req |-> 0,
                 used |-> NoKey, disabled |-> {}, rot |-> 0]
        sent == [base EXCEPT !.current_index = ci, !.req = 1, !.used = g.key]
        backup(b) == [b EXCEPT !.ret = call_huggingface_api(hfo), !.hf = 1]
        status_code == HTTPErrorStatusCode(out.status)
        d == disable_current_key(ks, ci)
    IN IF retry >= MAX_GEMINI_RETRIES THEN backup(base)
       ELSE IF g.key = NoKey THEN backup([base EXCEPT !.current_index = ci])
       ELSE CASE out.kind = "ok" -> [sent EXCEPT !.ret = out.body]
              [] out.kind = "http" ->
                   IF status_code \in {400, 403, 429, 503}
                   THEN IF status_code = 503
                        THEN IF Len(ks) > 0
                             THEN [sent EXCEPT !.current_index = rotate_key(ks, ci),
                                               !.rot = 1, !.retry_count = retry + 1,
                                               !.done = FALSE]
                             ELSE backup(sent)
                        ELSE IF Len(d.keys) > 0
                             THEN [sent EXCEPT !.keys = d.keys,
                                               !.current_index = rotate_key(d.keys, d.current_index),
                                               !.disabled = d.disabled,
                                               !.rot = 1, !.retry_count = retry + 1,
                                               !.done = FALSE]
                             ELSE [sent EXCEPT !.keys = d.keys,
                                               !.current_index = d.current_index,
                                               !.disabled = d.disabled]
                   ELSE sent
              [] OTHER ->
                   IF Len(ks) > 0
                   THEN [sent EXCEPT !.current_index = rotate_key(ks, ci),
                                     !.rot = 1, !.retry_count = retry + 1,
                                     !.done = FALSE]
                   ELSE sent

\* check_video_availability returning False at line 400
check_video_availability_fail_closed(response) ==
    IF ~response.ok THEN "False"
    ELSE IF ~response.cand THEN "True"
    ELSE IF ~IsJson(response.text) THEN "True"
    ELSE AvailableField(response.text)

\* check_video_availability, after call_gemini_api returned response:
\* "True" / "False" / "None" is the Python value returned.
check_video_availability(response) ==
    IF ~response.ok THEN "True"
    ELSE IF ~response.cand THEN "True"
    ELSE IF ~IsJson(response.text) THEN "True"
    ELSE AvailableField(response.text)

\* Python truth of that value (line 715: if not is_available)
Truthy(v) == v = "True"

\* ValidSegment with the comparison of line 460 made strict
ValidSegment_strict(seg) == seg.fields /\ seg.end - seg.start > 120

\* parse_gemini_response: the list of valid segments, <<>> standing for None
ValidSegment(seg) == seg.fields /\ seg.end - seg.start >= 120

\* The argument of parse_gemini_response as the function reads it: cand,
\* the response has candidates[0].content.parts[0].text; json, json.loads
\* accepts the text; has_segments, 'segments' is in the data; segments, the
\* entries of the list in the text.
ParseInput(c, j, h, segs) == [cand |-> c, json |-> j, has_segments |-> h, segments |-> segs]

NoParseInput == ParseInput(FALSE, FALSE, FALSE, <<>>)

\* lines 428-473
parse_data(inp) ==
    IF ~inp.cand THEN <<>>
    ELSE IF ~inp.json THEN <<>>
    ELSE IF ~inp.has_segments THEN <<>>
    ELSE SelectSeq(inp.segments, ValidSegment)

parse_gemini_response(response) ==
    parse_data(ParseInput(response.cand, IsJson(response.text),
                          HasSegments(response.text), SegmentsField(response.text)))

----------------------------------------------------------------------------
(* The api_keys table (service 'transcript_api').  A row is absent until   *)
(* provisioning inserts it; last_used 0 is NULL.                           *)

NoRow == [status |-> "absent", usage_count |-> 0, last_used |-> 0, disabled_reason |-> ""]
NewRow == [status |-> "active", usage_count |-> 0, last_used |-> 0, disabled_reason |-> ""]

ActiveIds(store) == {k \in ApiKeyIds : store[k].status = "active"}

\* get_active_key without the filter on status (line 82)
get_active_key_any_status(store) ==
    {k \in ApiKeyIds :
        /\ store[k].status # "absent"
        /\ \A j \in ApiKeyIds :
               store[j].status # "absent" => store[k].last_used <= store[j].last_used}

\* get_active_key ordering by last_used descending at line 83
get_active_key_most_recent(store) ==
    {k \in ActiveIds(store) :
        \A j \in ActiveIds(store) : store[k].last_used >= store[j].last_used}

\* get_active_key: an active row with the least last_used, NULL first;
\* rows that tie are returned in no particular order.  {} is None.
get_active_key(store) ==
    {k \in ActiveIds(store) :
        \A j \in ActiveIds(store) : store[k].last_used <= store[j].last_used}

\* mark_key_used
mark_key_used(store, clk, key_id) ==
    IF store[key_id].status # "absent"
    THEN [store EXCEPT ![key_id].usage_count = @ + 1, ![key_id].last_used = clk]
    ELSE store

\* disable_key
disable_key(store, key_id, reason) ==
    IF store[key_id].status # "absent"
    THEN [store EXCEPT ![key_id].status = "disabled", ![key_id].disabled_reason = reason]
    ELSE store

\* get_active_keys_count
get_active_keys_count(store) == Cardinality(ActiveIds(store))

\* auto_register_and_save_key: on success a new active row; the row id is
\* the next free one.  ok = FALSE stands for any failed step.
FreeIds(store) == {k \in ApiKeyIds : store[k].status = "absent"}

NextId(store) == CHOOSE k \in FreeIds(store) : \A j \in FreeIds(store) : k <= j

auto_register_and_save_key(store, ok) ==
    IF ok /\ FreeIds(store) # {}
    THEN [api_keys |-> [store EXCEPT ![NextId(store)] = NewRow], key |-> NextId(store)]
    ELSE [api_keys |-> store, key |-> NoKey]

\* Outcomes of one GET to the transcript endpoint
FatalReason(status) ==
    CASE status = 401 -> "Unauthorized"
      [] status = 402 -> "Quota exceeded"
      [] status = 403 -> "Forbidden"
      [] status = 429 -> "Rate limit"
      [] OTHER -> "HTTP"

TranscriptOutcomes ==
    {[kind |-> "http", status |-> st] : st \in {401, 402, 403, 429, 404, 500}}
    \cup {[kind |-> k, status |-> 200] : k \in {"transcript", "empty", "error_field", "no_field"}}
    \cup {[kind |-> k, status |-> 0] : k \in {"request_exception", "exception"}}

\* One iteration of the loop of fetch_transcript_with_retry.  act is
\* "continue" or "return"; transcript TRUE is a non-empty entry list, FALSE
\* is None.  pick is the row get_active_key returned (NoKey for None).
fetch_iteration(store, clk, attempt, pick, prov_ok, out) ==
    LET reg == auto_register_and_save_key(store, prov_ok)
        st0 == IF pick = NoKey THEN reg.api_keys ELSE store
        key_obj == IF pick = NoKey THEN reg.key ELSE pick
        base == [api_keys |-> st0, clock |-> clk, act |-> "return", transcript |-> FALSE,
                 used |-> key_obj, provisioning |-> pick = NoKey, request |-> key_obj # NoKey,
                 disabled |-> {}, marked |-> FALSE]
        last == ~(attempt < max_attempts - 1)
    IN IF key_obj = NoKey THEN [base EXCEPT !.act = "continue"]
       ELSE CASE out.kind = "http" /\ out.status \in {401, 402, 403, 429} ->
                   [base EXCEPT !.api_keys = disable_key(st0, key_obj, FatalReason(out.status)),
                                !.disabled = {key_obj},
                                !.act = IF last THEN "return" ELSE "continue"]
              [] out.kind = "http" /\ out.status = 404 ->
                   [base EXCEPT !.api_keys = mark_key_used(st0, clk + 1, key_obj),
                                !.clock = clk + 1, !.marked = TRUE]
              [] out.kind = "http" -> base
              [] out.kind = "transcript" ->
                   [base EXCEPT !.api_keys = mark_key_used(st0, clk + 1, key_obj),
                                !.clock = clk + 1, !.marked = TRUE, !.transcript = TRUE]
              [] out.kind = "empty" -> base
              [] out.kind = "error_field" -> base
              [] out.kind = "no_field" -> [base EXCEPT !.act = "continue"]
              [] out.kind = "request_exception" ->
                   [base EXCEPT !.act = IF last THEN "return" ELSE "continue"]
              [] OTHER -> base

----------------------------------------------------------------------------
(* State *)

VARIABLES
    GEMINI_KEYS,          \* the parsed GEMINI_KEYS_JSON: records [key, status]
    keys, current_index,  \* the GeminiKeyManager of the running process
    api_keys, clock,      \* the api_keys table and the time of the last use
    db,                   \* committed playlist_videos rows
    pv,                   \* the PlaylistVideo objects of the session
    no_transcript_videos, \* committed no_transcript_videos rows
    videos,               \* committed videos rows
    session_new,          \* Video objects added to the session, not committed
    files,                \* the temporary directory: the video and the clips
    uploaded,             \* objects put to R2
    pc, run, pending_videos, item_i,
    processed,            \* the items process_single_video returned for, this run
    attempt, transcript,  \* fetch_transcript_with_retry
    caller, retry_count, response,   \* call_gemini_api
    an_attempt, segments, \* analyze_transcript
    cut_i, created_shorts, up_i, stats,
    obs,                  \* what the current provider call has done so far
    tlast,                \* what the last transcript request did, and how many
                          \* requests, provisionings and disables the call made
    disabled_log,         \* the credentials disabled so far, per pool
    acquired, ops,        \* SpecPools: what the last operation returned if it
                          \* was an acquire, and the operations so far
    calls,                \* the collaborators called for the current item
    parse_input,          \* SpecParse: the argument of parse_gemini_response
    prov,                 \* the last call of auto_register_and_save_key
    workers,              \* the callers at once: where each is, and its locals
    save                  \* SpecSave: the playlist_videos table and the call of
                          \* save_videos_to_db

gemVars == <<GEMINI_KEYS, keys, current_index>>
storeVars == <<api_keys, clock>>
dbVars == <<db, pv, no_transcript_videos, videos, session_new>>
fetchVars == <<attempt, transcript, tlast>>
callVars == <<caller, retry_count, response, obs>>
cutVars == <<an_attempt, segments, cut_i, created_shorts, up_i>>
mainVars == <<run, pending_videos, item_i, processed>>
poolVars == <<acquired, ops, parse_input, prov, workers, save>>

\* ai: Gemini keys disabled by the running process; ai_ever: by any process;
\* transcript: api_keys rows disabled
NoSave == [table |-> <<>>, videos |-> <<>>, i |-> 0, pass |-> 0,
           stats |-> [inserted |-> 0, skipped |-> 0, failed |-> 0],
           first |-> [inserted |-> 0, skipped |-> 0, failed |-> 0]]

NoCalls == [download |-> 0, availability |-> 0, analysis |-> 0, cut |-> 0, upload |-> 0]

NoAcquired == [pool |-> "none", key |-> NoKey]

NoDisabled == [ai |-> {}, ai_ever |-> {}, transcript |-> {}]

\* A caller that has not begun.  key is the credential it holds, fatal the
\* Gemini key on which it was answered 400, 403 or 429, provisioned the rows
\* its calls of auto_register_and_save_key wrote.
NoWorker == [pc |-> "idle", key |-> NoKey, attempt |-> 0, retry_count |-> 0,
             fatal |-> NoKey, provisioned |-> 0]

\* auto_register_and_save_key has not been called.  result is "idle",
\* "running", "key" (an ApiKey was returned), "None" or "raised"; steps are
\* the steps executed, each with its success; before and after are the
\* api_keys table when the call began and when it ended.
NoProv == [result |-> "idle", use_testmail |-> FALSE, primary |-> "none",
           secondary |-> "none", path |-> "none", steps |-> <<>>, key |-> NoKey,
           query_ok |-> TRUE, before |-> <<>>, after |-> <<>>]

LogAI(l, ds) == [l EXCEPT !.ai = @ \cup ds, !.ai_ever = @ \cup ds]

LogTranscript(l, ds) == [l EXCEPT !.transcript = @ \cup ds]

LogRestart(l) == [l EXCEPT !.ai = {}]

vars == <<GEMINI_KEYS, keys, current_index, api_keys, clock, db, pv,
          no_transcript_videos, videos, session_new, files, uploaded, pc, run,
          pending_videos, item_i, processed, attempt, transcript, caller,
          retry_count,
          response, an_attempt, segments, cut_i, created_shorts, up_i, stats,
          obs, tlast, disabled_log, acquired, ops, calls, parse_input, prov,
          workers, save>>

NewTask == [transcript_status |-> "pending", download_status |-> "pending",
            analysis_status |-> "pending", conversion_status |-> "pending",
            shorts_count |-> 0]

NewStats == [success |-> FALSE, shorts_created |-> 0, error |-> "", skipped |-> FALSE]

NoFiles == [video |-> FALSE, clips |-> {}]

NoLast == [kind |-> "none", status |-> 0, used |-> NoKey, contd |-> FALSE,
           disabled |-> {}]

NoObs == [callHf |-> 0, callHfFailed |-> 0, callReqs |-> 0, callFatal |-> {},
          callFatalN |-> 0, callDisabled |-> {}, callRots |-> 0, callPool |-> {},
          chainHf |-> 0, chainFatal |-> {}, chainPool |-> {}, chainCalls |-> 0,
          last |-> NoLast]

NoTLast == [kind |-> "none", status |-> 0, used |-> NoKey, act |-> "none",
            disabled |-> {}, provisioning |-> FALSE, attempt |-> 0,
            requests |-> 0, provisionings |-> 0, disables |-> 0]

\* The configurations of GEMINI_KEYS_JSON: NumGeminiKeys entries, each a
\* plain string or a dict with status 'active', or a dict with another status.
GeminiConfigs ==
    {[j \in 1..NumGeminiKeys |-> [key |-> j, status |-> f[j]]] :
        f \in [1..NumGeminiKeys -> {"active", "disabled"}]}

InitApiKeys(n) == [k \in ApiKeyIds |-> IF k <= n THEN NewRow ELSE NoRow]

\* The state when the program starts on a table whose rows are ids, but
\* for the configuration of GEMINI_KEYS_JSON
InitTables(ids) ==
    /\ keys = <<>> /\ current_index = 0
    /\ \E n \in 0..MaxInitApiKeys : api_keys = InitApiKeys(n)
    /\ clock = 0
    /\ db = [it \in ids |-> NewTask]
    /\ pv = db
    /\ no_transcript_videos = {} /\ videos = {} /\ session_new = {}
    /\ files = NoFiles /\ uploaded = {}
    /\ run = 0 /\ pending_videos = <<>> /\ item_i = 0 /\ processed = <<>>
    /\ attempt = 0 /\ transcript = FALSE
    /\ caller = "none" /\ retry_count = 0 /\ response = NoneResp
    /\ an_attempt = 0 /\ segments = <<>>
    /\ cut_i = 0 /\ created_shorts = <<>> /\ up_i = 0 /\ stats = NewStats
    /\ obs = NoObs /\ tlast = NoTLast /\ disabled_log = NoDisabled
    /\ acquired = NoAcquired /\ ops = 0
    /\ calls = NoCalls /\ parse_input = NoParseInput /\ prov = NoProv
    /\ workers = [w \in Workers |-> NoWorker]

\* The state when the program starts on a table whose rows are ids
InitRows(ids) == GEMINI_KEYS \in GeminiConfigs /\ InitTables(ids) /\ save = NoSave

InitCommon == InitRows(Items)

Init == InitCommon /\ pc = "idle"

\* The observation record when a provider call begins / a chain begins
ObsNewCall(o, ks) ==
    [o EXCEPT !.callHf = 0, !.callHfFailed = 0, !.callReqs = 0, !.callFatal = {},
              !.callFatalN = 0, !.callDisabled = {}, !.callRots = 0,
              !.callPool = Range(ks), !.chainCalls = @ + 1, !.last = NoLast]

ObsNewChain(o, ks) ==
    [ObsNewCall(o, ks) EXCEPT !.chainHf = 0, !.chainFatal = {}, !.chainPool = Range(ks),
                              !.chainCalls = 1]

CredentialFatalAI(out) == out.kind = "http" /\ out.status \in {400, 403, 429}

TransientAI(out) == (out.kind = "http" /\ out.status = 503) \/ out.kind = "error"

\* ... after one invocation f of call_gemini_api that saw outcome out
ObsFrame(o, f, out) ==
    LET fatal == f.req = 1 /\ CredentialFatalAI(out)
    IN [o EXCEPT !.callHf = @ + f.hf,
                 !.callHfFailed = @ + (IF f.hf = 1 /\ ~f.ret.ok THEN 1 ELSE 0),
                 !.callReqs = @ + f.req,
                 !.callFatal = IF fatal THEN @ \cup {f.used} ELSE @,
                 !.callFatalN = IF fatal THEN @ + 1 ELSE @,
                 !.callDisabled = @ \cup f.disabled,
                 !.callRots = @ + f.rot,
                 !.chainHf = @ + f.hf,
                 !.chainFatal = IF fatal THEN @ \cup {f.used} ELSE @,
                 !.last = IF f.req = 1
                          THEN [kind |-> out.kind, status |-> out.status,
                                used |-> f.used, contd |-> ~f.done,
                                disabled |-> f.disabled]
                          ELSE [kind |-> "backup", status |-> 0, used |-> NoKey,
                                contd |-> FALSE, disabled |-> {}]]

\* The pending items of the table, in id order
PendingSeq(d) ==
    LET F[n \in 0..Cardinality(DOMAIN d)] ==
          IF n = 0 THEN <<>>
          ELSE IF d[n].download_status = "pending" THEN Append(F[n - 1], n)
               ELSE F[n - 1]
    IN F[Cardinality(DOMAIN d)]

Cur == pending_videos[item_i]

----------------------------------------------------------------------------
(* Spec: main() and process_single_video *)

\* db_session.commit(): every dirty object and every added object is written
CommitTo(pvn) ==
    /\ pv' = pvn
    /\ db' = pvn
    /\ videos' = videos \cup session_new
    /\ session_new' = {}

\* A call of call_gemini_api(prompt, key_manager) with retry_count = 0 begins
BeginCall(who, o) ==
    /\ pc' = "gemini"
    /\ caller' = who
    /\ retry_count' = 0
    /\ response' = NoneResp
    /\ obs' = o

\* process_single_video returns st to main
Return(st) == pc' = "psv_ret" /\ stats' = st

\* The locals of a call that has returned are gone
ResetFetch == attempt' = 0 /\ tlast' = NoTLast

ResetCall == caller' = "none" /\ retry_count' = 0 /\ response' = NoneResp /\ obs' = NoObs

ResetCut ==
    /\ an_attempt' = 0 /\ segments' = <<>> /\ cut_i' = 0
    /\ created_shorts' = <<>> /\ up_i' = 0

\* main, lines 843-861: the key manager, the session, the pending items
main_start ==
    /\ pc = "idle" /\ run < MaxRuns
    /\ run' = run + 1
    /\ keys' = KMInitKeys(GEMINI_KEYS)
    /\ current_index' \in KMStartIndexes(keys')
    /\ pv' = db /\ session_new' = {}
    /\ pending_videos' = PendingSeq(db)
    /\ item_i' = 1 /\ processed' = <<>>
    /\ pc' = IF pending_videos' = <<>> THEN "idle" ELSE "loop"
    /\ files' = NoFiles
    /\ disabled_log' = LogRestart(disabled_log)
    /\ UNCHANGED <<GEMINI_KEYS, storeVars, db, no_transcript_videos, videos, uploaded,
                   fetchVars, callVars, cutVars, stats, poolVars>>
    /\ UNCHANGED calls

\* main, lines 867-870 and 878-887: the next item, or the summary
main_loop ==
    /\ pc = "loop"
    /\ pc' = IF item_i > Len(pending_videos) THEN "idle" ELSE "psv_begin"
    /\ UNCHANGED <<gemVars, storeVars, dbVars, files, uploaded, mainVars, fetchVars,
                   callVars, cutVars, stats, poolVars, disabled_log>>
    /\ UNCHANGED calls

\* main_after_item without the TemporaryDirectory of line 870: the
\* directory outlives the item
main_after_item_keeps_dir ==
    /\ pc = "psv_ret"
    /\ item_i' = item_i + 1
    /\ processed' = Append(processed, Cur)
    /\ pc' = "loop"
    /\ ResetCut /\ transcript' = FALSE /\ stats' = NewStats
    /\ UNCHANGED <<gemVars, storeVars, dbVars, files, uploaded, run, pending_videos,
                   attempt, tlast, callVars, poolVars, disabled_log>>
    /\ calls' = NoCalls

\* main_after_item with process_single_video lacking the handler of lines
\* 820-823: the exception of an item leaves main
main_after_item_aborts ==
    /\ pc = "psv_ret"
    /\ files' = NoFiles
    /\ item_i' = item_i + 1
    /\ processed' = Append(processed, Cur)
    /\ pc' = IF stats.error = "exception" THEN "idle" ELSE "loop"
    /\ ResetCut /\ transcript' = FALSE /\ stats' = NewStats
    /\ UNCHANGED <<gemVars, storeVars, dbVars, uploaded, run, pending_videos,
                   attempt, tlast, callVars, poolVars, disabled_log>>
    /\ calls' = NoCalls

\* main, lines 871-876: the item returned, its temporary directory is removed
main_after_item ==
    /\ pc = "psv_ret"
    /\ files' = NoFiles
    /\ item_i' = item_i + 1
    /\ processed' = Append(processed, Cur)
    /\ pc' = "loop"
    /\ ResetCut /\ transcript' = FALSE /\ stats' = NewStats
    /\ UNCHANGED <<gemVars, storeVars, dbVars, uploaded, run, pending_videos,
                   attempt, tlast, callVars, poolVars, disabled_log>>
    /\ calls' = NoCalls

\* psv_begin going to the download (line 694) before the transcript fetch
psv_begin_download_first ==
    /\ pc = "psv_begin"
    /\ CommitTo([pv EXCEPT ![Cur].transcript_status = "fetching"])
    /\ attempt' = 0 /\ transcript' = FALSE /\ tlast' = NoTLast
    /\ pc' = "psv_mark_downloading"
    /\ UNCHANGED <<gemVars, storeVars, no_transcript_videos, files, uploaded,
                   mainVars, callVars, cutVars, stats, poolVars, disabled_log>>
    /\ UNCHANGED calls

\* lines 638-645
psv_begin ==
    /\ pc = "psv_begin"
    /\ CommitTo([pv EXCEPT ![Cur].transcript_status = "fetching"])
    /\ attempt' = 0 /\ transcript' = FALSE /\ tlast' = NoTLast
    /\ pc' = "fetch"
    /\ UNCHANGED <<gemVars, storeVars, no_transcript_videos, files, uploaded,
                   mainVars, callVars, cutVars, stats, poolVars, disabled_log>>
    /\ UNCHANGED calls

\* fetch_step looping while the iteration says continue, without the
\* range(max_attempts) of line 985
fetch_step_no_attempt_limit(E) ==
    /\ pc = "fetch"
    /\ \E pick \in (IF get_active_key(api_keys) = {} THEN {NoKey} ELSE get_active_key(api_keys)),
          prov_ok \in E.provisioning, raises \in E.raises, out \in E.transcript :
         IF pick = NoKey /\ raises
         THEN /\ Return([stats EXCEPT !.error = "exception"])
              /\ ResetFetch /\ transcript' = FALSE
              /\ UNCHANGED <<storeVars, dbVars, disabled_log>>
         ELSE LET r == fetch_iteration(api_keys, clock, attempt, pick, prov_ok, out)
                  again == r.act = "continue"
              IN /\ api_keys' = r.api_keys
                 /\ clock' = r.clock
                 /\ disabled_log' = LogTranscript(disabled_log, r.disabled)
                 /\ IF r.api_keys # api_keys THEN CommitTo(pv) ELSE UNCHANGED dbVars
                 /\ tlast' = [kind |-> IF r.request THEN out.kind ELSE "none",
                              status |-> IF r.request THEN out.status ELSE 0,
                              used |-> r.used, act |-> r.act, disabled |-> r.disabled,
                              provisioning |-> r.provisioning, attempt |-> attempt,
                              requests |-> tlast.requests + (IF r.request THEN 1 ELSE 0),
                              provisionings |->
                                  tlast.provisionings + (IF r.provisioning THEN 1 ELSE 0),
                              disables |-> tlast.disables + Cardinality(r.disabled)]
                 /\ IF again
                    THEN attempt' = attempt + 1 /\ pc' = "fetch" /\ UNCHANGED transcript
                    ELSE attempt' = attempt /\ pc' = "psv_transcript"
                         /\ transcript' = (r.act = "return" /\ r.transcript)
                 /\ UNCHANGED stats
    /\ UNCHANGED <<gemVars, no_transcript_videos, files, uploaded, mainVars,
                   callVars, cutVars, poolVars>>
    /\ UNCHANGED calls

\* fetch_transcript_with_retry: one iteration of its loop.  An exception
\* raised inside auto_register_and_save_key (lines 883, 904) is caught by
\* neither function and ends the item in the handler of lines 820-823.
fetch_step(E) ==
    /\ pc = "fetch"
    /\ \E pick \in (IF get_active_key(api_keys) = {} THEN {NoKey} ELSE get_active_key(api_keys)),
          prov_ok \in E.provisioning, raises \in E.raises, out \in E.transcript :
         IF pick = NoKey /\ raises
         THEN /\ Return([stats EXCEPT !.error = "exception"])
              /\ ResetFetch /\ transcript' = FALSE
              /\ UNCHANGED <<storeVars, dbVars, disabled_log>>
         ELSE LET r == fetch_iteration(api_keys, clock, attempt, pick, prov_ok, out)
                  again == r.act = "continue" /\ attempt + 1 < max_attempts
              IN /\ api_keys' = r.api_keys
                 /\ clock' = r.clock
                 /\ disabled_log' = LogTranscript(disabled_log, r.disabled)
                 /\ IF r.api_keys # api_keys THEN CommitTo(pv) ELSE UNCHANGED dbVars
                 /\ tlast' = [kind |-> IF r.request THEN out.kind ELSE "none",
                              status |-> IF r.request THEN out.status ELSE 0,
                              used |-> r.used, act |-> r.act, disabled |-> r.disabled,
                              provisioning |-> r.provisioning, attempt |-> attempt,
                              requests |-> tlast.requests + (IF r.request THEN 1 ELSE 0),
                              provisionings |->
                                  tlast.provisionings + (IF r.provisioning THEN 1 ELSE 0),
                              disables |-> tlast.disables + Cardinality(r.disabled)]
                 /\ IF again
                    THEN attempt' = attempt + 1 /\ pc' = "fetch" /\ UNCHANGED transcript
                    ELSE attempt' = attempt /\ pc' = "psv_transcript"
                         /\ transcript' = (r.act = "return" /\ r.transcript)
                 /\ UNCHANGED stats
    /\ UNCHANGED <<gemVars, no_transcript_videos, files, uploaded, mainVars,
                   callVars, cutVars, poolVars>>
    /\ UNCHANGED calls

\* psv_transcript without the return at line 686: the item goes on to the
\* download
psv_transcript_no_return ==
    /\ pc = "psv_transcript"
    /\ IF ~transcript
       THEN /\ CommitTo([pv EXCEPT ![Cur].download_status = "skipped",
                                   ![Cur].transcript_status = "skipped",
                                   ![Cur].analysis_status = "skipped",
                                   ![Cur].conversion_status = "skipped"])
            /\ no_transcript_videos' = no_transcript_videos \cup {Cur}
            /\ stats' = [stats EXCEPT !.error = "No transcript", !.skipped = TRUE]
            /\ pc' = "psv_mark_downloading"
       ELSE /\ CommitTo([pv EXCEPT ![Cur].transcript_status = "completed"])
            /\ pc' = "psv_mark_downloading"
            /\ UNCHANGED <<no_transcript_videos, stats>>
    /\ ResetFetch
    /\ UNCHANGED <<gemVars, storeVars, files, uploaded, mainVars, transcript,
                   callVars, cutVars, poolVars, disabled_log>>
    /\ UNCHANGED calls

\* lines 670-690
psv_transcript ==
    /\ pc = "psv_transcript"
    /\ IF ~transcript
       THEN /\ CommitTo([pv EXCEPT ![Cur].download_status = "skipped",
                                   ![Cur].transcript_status = "skipped",
                                   ![Cur].analysis_status = "skipped",
                                   ![Cur].conversion_status = "skipped"])
            /\ no_transcript_videos' = no_transcript_videos \cup {Cur}
            /\ Return([stats EXCEPT !.error = "No transcript", !.skipped = TRUE])
       ELSE /\ CommitTo([pv EXCEPT ![Cur].transcript_status = "completed"])
            /\ pc' = "psv_mark_downloading"
            /\ UNCHANGED <<no_transcript_videos, stats>>
    /\ ResetFetch
    /\ UNCHANGED <<gemVars, storeVars, files, uploaded, mainVars, transcript,
                   callVars, cutVars, poolVars, disabled_log>>
    /\ UNCHANGED calls

\* psv_mark_downloading without the commit of line 695
psv_mark_downloading_no_commit ==
    /\ pc = "psv_mark_downloading"
    /\ pv' = [pv EXCEPT ![Cur].download_status = "downloading"]
    /\ pc' = "download"
    /\ UNCHANGED <<gemVars, storeVars, db, no_transcript_videos, videos, session_new,
                   files, uploaded, mainVars, fetchVars, callVars, cutVars, stats,
                   poolVars, disabled_log>>
    /\ UNCHANGED calls

\* lines 692-695
psv_mark_downloading ==
    /\ pc = "psv_mark_downloading"
    /\ CommitTo([pv EXCEPT ![Cur].download_status = "downloading"])
    /\ pc' = "download"
    /\ UNCHANGED <<gemVars, storeVars, no_transcript_videos, files, uploaded,
                   mainVars, fetchVars, callVars, cutVars, stats, poolVars, disabled_log>>
    /\ UNCHANGED calls

\* psv_download without the return at line 704: a failed download goes on
\* to the availability check
psv_download_no_return(E) ==
    /\ pc = "download"
    /\ \E ok \in E.download :
         /\ CommitTo([pv EXCEPT ![Cur].download_status = IF ok THEN "completed" ELSE "failed"])
         /\ files' = [files EXCEPT !.video = ok]
         /\ BeginCall("availability", ObsNewChain(obs, keys))
         /\ calls' = [calls EXCEPT !.download = @ + 1, !.availability = @ + 1]
         /\ UNCHANGED stats
    /\ UNCHANGED <<gemVars, storeVars, no_transcript_videos, uploaded, mainVars,
                   fetchVars, cutVars, poolVars, disabled_log>>

\* psv_download marking the analysis failed as well at line 701
psv_download_fails_analysis(E) ==
    /\ pc = "download"
    /\ \E ok \in E.download :
         IF ~ok
         THEN /\ CommitTo([pv EXCEPT ![Cur].download_status = "failed",
                                     ![Cur].analysis_status = "failed"])
              /\ Return([stats EXCEPT !.error = "Download failed"])
              /\ calls' = [calls EXCEPT !.download = @ + 1]
              /\ UNCHANGED <<files, callVars>>
         ELSE /\ CommitTo([pv EXCEPT ![Cur].download_status = "completed"])
              /\ files' = [files EXCEPT !.video = TRUE]
              /\ BeginCall("availability", ObsNewChain(obs, keys))
              /\ calls' = [calls EXCEPT !.download = @ + 1, !.availability = @ + 1]
              /\ UNCHANGED stats
    /\ UNCHANGED <<gemVars, storeVars, no_transcript_videos, uploaded, mainVars,
                   fetchVars, cutVars, poolVars, disabled_log>>

\* lines 697-713: download_video, then check_video_availability begins
psv_download(E) ==
    /\ pc = "download"
    /\ \E ok \in E.download :
         IF ~ok
         THEN /\ CommitTo([pv EXCEPT ![Cur].download_status = "failed"])
              /\ Return([stats EXCEPT !.error = "Download failed"])
              /\ calls' = [calls EXCEPT !.download = @ + 1]
              /\ UNCHANGED <<files, callVars>>
         ELSE /\ CommitTo([pv EXCEPT ![Cur].download_status = "completed"])
              /\ files' = [files EXCEPT !.video = TRUE]
              /\ BeginCall("availability", ObsNewChain(obs, keys))
              /\ calls' = [calls EXCEPT !.download = @ + 1, !.availability = @ + 1]
              /\ UNCHANGED stats
    /\ UNCHANGED <<gemVars, storeVars, no_transcript_videos, uploaded, mainVars,
                   fetchVars, cutVars, poolVars, disabled_log>>

\* The answers that matter to the next invocation of call_gemini_api: the
\* primary provider's if a request is sent, the secondary's if it is called
NoAnswer == [kind |-> "fail", text |-> ""]

SendsRequest == retry_count < MAX_GEMINI_RETRIES /\ keys # <<>>

GeminiInputs(E) == IF SendsRequest THEN E.gemini ELSE {GeminiError}

BackupInputs(E) == IF SendsRequest THEN {NoAnswer} ELSE E.hf

\* call_gemini_api: one invocation
gemini_step(E) ==
    /\ pc = "gemini"
    /\ \E out \in GeminiInputs(E), hfo \in BackupInputs(E) :
         LET f == call_gemini_api(keys, current_index, retry_count, out, hfo)
         IN /\ keys' = f.keys
            /\ current_index' = f.current_index
            /\ retry_count' = f.retry_count
            /\ obs' = ObsFrame(obs, f, out)
            /\ disabled_log' = LogAI(disabled_log, f.disabled)
            /\ IF f.done
               THEN /\ response' = f.ret
                    /\ pc' = IF caller = "availability" THEN "psv_availability" ELSE "analyze"
               ELSE /\ pc' = "gemini" /\ UNCHANGED response
    /\ UNCHANGED <<GEMINI_KEYS, storeVars, dbVars, files, uploaded, mainVars,
                   fetchVars, caller, cutVars, stats, poolVars>>
    /\ UNCHANGED calls

\* psv_availability with the four assignments of the no-transcript branch
\* (lines 673-676) in place of lines 719-721
psv_availability_skips_all ==
    /\ pc = "psv_availability"
    /\ LET is_available == check_video_availability(response)
       IN IF ~Truthy(is_available)
          THEN /\ CommitTo([pv EXCEPT ![Cur].download_status = "skipped",
                                      ![Cur].transcript_status = "skipped",
                                      ![Cur].analysis_status = "skipped",
                                      ![Cur].conversion_status = "skipped"])
               /\ files' = [files EXCEPT !.video = FALSE]
               /\ Return([stats EXCEPT !.error = "Video unavailable", !.skipped = TRUE])
               /\ ResetCall
               /\ UNCHANGED <<an_attempt, calls>>
          ELSE /\ an_attempt' = 0
               /\ BeginCall("analysis", ObsNewChain(obs, keys))
               /\ calls' = [calls EXCEPT !.analysis = @ + 1]
               /\ UNCHANGED <<dbVars, files, stats>>
    /\ UNCHANGED <<gemVars, storeVars, no_transcript_videos, uploaded, mainVars,
                   fetchVars, segments, cut_i, created_shorts, up_i, poolVars, disabled_log>>

\* psv_availability without the os.remove of lines 726-727
psv_availability_keeps_file ==
    /\ pc = "psv_availability"
    /\ LET is_available == check_video_availability(response)
       IN IF ~Truthy(is_available)
          THEN /\ CommitTo([pv EXCEPT ![Cur].download_status = "skipped",
                                      ![Cur].analysis_status = "skipped",
                                      ![Cur].conversion_status = "skipped"])
               /\ UNCHANGED files
               /\ Return([stats EXCEPT !.error = "Video unavailable", !.skipped = TRUE])
               /\ ResetCall
               /\ UNCHANGED <<an_attempt, calls>>
          ELSE /\ an_attempt' = 0
               /\ BeginCall("analysis", ObsNewChain(obs, keys))
               /\ calls' = [calls EXCEPT !.analysis = @ + 1]
               /\ UNCHANGED <<dbVars, files, stats>>
    /\ UNCHANGED <<gemVars, storeVars, no_transcript_videos, uploaded, mainVars,
                   fetchVars, segments, cut_i, created_shorts, up_i, poolVars, disabled_log>>

\* check_video_availability returned (lines 398-424); lines 715-733
psv_availability ==
    /\ pc = "psv_availability"
    /\ LET is_available == check_video_availability(response)
       IN IF ~Truthy(is_available)
          THEN /\ CommitTo([pv EXCEPT ![Cur].download_status = "skipped",
                                      ![Cur].analysis_status = "skipped",
                                      ![Cur].conversion_status = "skipped"])
               /\ files' = [files EXCEPT !.video = FALSE]
               /\ Return([stats EXCEPT !.error = "Video unavailable", !.skipped = TRUE])
               /\ ResetCall
               /\ UNCHANGED <<an_attempt, calls>>
          ELSE /\ an_attempt' = 0
               /\ BeginCall("analysis", ObsNewChain(obs, keys))
               /\ calls' = [calls EXCEPT !.analysis = @ + 1]
               /\ UNCHANGED <<dbVars, files, stats>>
    /\ UNCHANGED <<gemVars, storeVars, no_transcript_videos, uploaded, mainVars,
                   fetchVars, segments, cut_i, created_shorts, up_i, poolVars, disabled_log>>

\* analyze_transcript, lines 514-549: call_gemini_api returned response in
\* iteration an_attempt of the loop
analyze(E) ==
    /\ pc = "analyze"
    /\ \E hfo \in (IF ~response.ok /\ ~(an_attempt < max_retries - 1) THEN E.hf ELSE {NoAnswer}) :
         LET more == an_attempt < max_retries - 1
             hf_response == call_huggingface_api(hfo)
             parsed == parse_gemini_response(response)
         IN IF ~response.ok
            THEN IF more
                 THEN /\ an_attempt' = an_attempt + 1
                      /\ BeginCall("analysis", ObsNewCall(obs, keys))
                      /\ UNCHANGED <<segments, current_index>>
                 ELSE /\ segments' = IF hf_response.ok
                                     THEN parse_gemini_response(hf_response) ELSE <<>>
                      /\ obs' = [obs EXCEPT !.chainHf = @ + 1]
                      /\ pc' = "psv_analysis"
                      /\ UNCHANGED <<an_attempt, caller, retry_count, response, current_index>>
            ELSE IF parsed # <<>>
                 THEN /\ segments' = parsed
                      /\ pc' = "psv_analysis"
                      /\ UNCHANGED <<an_attempt, callVars, current_index>>
                 ELSE IF more
                      THEN /\ current_index' = rotate_key(keys, current_index)
                           /\ an_attempt' = an_attempt + 1
                           /\ BeginCall("analysis", ObsNewCall(obs, keys))
                           /\ UNCHANGED segments
                      ELSE /\ segments' = <<>>
                           /\ pc' = "psv_analysis"
                           /\ UNCHANGED <<an_attempt, callVars, current_index>>
    /\ UNCHANGED <<GEMINI_KEYS, keys, storeVars, dbVars, files, uploaded, mainVars,
                   fetchVars, cut_i, created_shorts, up_i, stats, poolVars, disabled_log>>
    /\ UNCHANGED calls

\* psv_analysis without the return at line 739: the item goes on to the cutter
psv_analysis_no_return ==
    /\ pc = "psv_analysis"
    /\ IF segments = <<>>
       THEN /\ CommitTo([pv EXCEPT ![Cur].analysis_status = "failed"])
            /\ stats' = [stats EXCEPT !.error = "AI analysis failed"]
            /\ cut_i' = 1 /\ created_shorts' = <<>>
            /\ pc' = "cut"
       ELSE /\ CommitTo([pv EXCEPT ![Cur].analysis_status = "completed"])
            /\ cut_i' = 1 /\ created_shorts' = <<>>
            /\ pc' = "cut"
            /\ UNCHANGED stats
    /\ ResetCall /\ an_attempt' = 0
    /\ UNCHANGED <<gemVars, storeVars, no_transcript_videos, files, uploaded,
                   mainVars, fetchVars, segments, up_i, poolVars, disabled_log>>
    /\ UNCHANGED calls

\* lines 735-751
psv_analysis ==
    /\ pc = "psv_analysis"
    /\ IF segments = <<>>
       THEN /\ CommitTo([pv EXCEPT ![Cur].analysis_status = "failed"])
            /\ Return([stats EXCEPT !.error = "AI analysis failed"])
            /\ UNCHANGED <<cut_i, created_shorts>>
       ELSE /\ CommitTo([pv EXCEPT ![Cur].analysis_status = "completed"])
            /\ cut_i' = 1 /\ created_shorts' = <<>>
            /\ pc' = "cut"
            /\ UNCHANGED stats
    /\ ResetCall /\ an_attempt' = 0
    /\ UNCHANGED <<gemVars, storeVars, no_transcript_videos, files, uploaded,
                   mainVars, fetchVars, segments, up_i, poolVars, disabled_log>>
    /\ UNCHANGED calls

\* psv_cut with the handler of lines 820-823 putting the analysis back to
\* pending
psv_cut_rolls_back(E) ==
    /\ pc = "cut" /\ cut_i <= Len(segments)
    /\ LET seg == segments[cut_i]
       IN IF ~seg.title_str
          THEN /\ Return([stats EXCEPT !.error = "exception"])
               /\ CommitTo([pv EXCEPT ![Cur].analysis_status = "pending"])
               /\ UNCHANGED <<cut_i, created_shorts, files, calls>>
          ELSE /\ \E success \in E.cut :
                    IF success
                    THEN /\ created_shorts' = Append(created_shorts, [n |-> cut_i, segment |-> seg])
                         /\ files' = [files EXCEPT !.clips = @ \cup {cut_i}]
                    ELSE UNCHANGED <<created_shorts, files>>
               /\ cut_i' = cut_i + 1
               /\ calls' = [calls EXCEPT !.cut = @ + 1]
               /\ UNCHANGED <<pc, stats, dbVars>>
    /\ UNCHANGED <<gemVars, storeVars, no_transcript_videos, uploaded, mainVars, fetchVars,
                   callVars, an_attempt, segments, up_i, poolVars, disabled_log>>

\* lines 753-770: one segment; sanitize_filename raises on a title that is
\* not a string, and the exception ends the item (lines 820-823)
psv_cut(E) ==
    /\ pc = "cut" /\ cut_i <= Len(segments)
    /\ LET seg == segments[cut_i]
       IN IF ~seg.title_str
          THEN /\ Return([stats EXCEPT !.error = "exception"])
               /\ UNCHANGED <<cut_i, created_shorts, files, calls>>
          ELSE /\ \E success \in E.cut :
                    IF success
                    THEN /\ created_shorts' = Append(created_shorts, [n |-> cut_i, segment |-> seg])
                         /\ files' = [files EXCEPT !.clips = @ \cup {cut_i}]
                    ELSE UNCHANGED <<created_shorts, files>>
               /\ cut_i' = cut_i + 1
               /\ calls' = [calls EXCEPT !.cut = @ + 1]
               /\ UNCHANGED <<pc, stats>>
    /\ UNCHANGED <<gemVars, storeVars, dbVars, uploaded, mainVars, fetchVars,
                   callVars, an_attempt, segments, up_i, poolVars, disabled_log>>

\* psv_cut_done without the assignment of shorts_count at line 779
psv_cut_done_no_count ==
    /\ pc = "cut" /\ cut_i > Len(segments)
    /\ IF created_shorts = <<>>
       THEN /\ CommitTo([pv EXCEPT ![Cur].conversion_status = "failed"])
            /\ Return([stats EXCEPT !.error = "No shorts created"])
            /\ UNCHANGED up_i
       ELSE /\ CommitTo([pv EXCEPT ![Cur].conversion_status = "completed"])
            /\ up_i' = 1
            /\ pc' = "upload"
            /\ UNCHANGED stats
    /\ UNCHANGED <<gemVars, storeVars, no_transcript_videos, files, uploaded,
                   mainVars, fetchVars, callVars, an_attempt, segments, cut_i,
                   created_shorts, poolVars, disabled_log>>
    /\ UNCHANGED calls

\* lines 772-783
psv_cut_done ==
    /\ pc = "cut" /\ cut_i > Len(segments)
    /\ IF created_shorts = <<>>
       THEN /\ CommitTo([pv EXCEPT ![Cur].conversion_status = "failed"])
            /\ Return([stats EXCEPT !.error = "No shorts created"])
            /\ UNCHANGED up_i
       ELSE /\ CommitTo([pv EXCEPT ![Cur].conversion_status = "completed",
                                   ![Cur].shorts_count = Len(created_shorts)])
            /\ up_i' = 1
            /\ pc' = "upload"
            /\ UNCHANGED stats
    /\ UNCHANGED <<gemVars, storeVars, no_transcript_videos, files, uploaded,
                   mainVars, fetchVars, callVars, an_attempt, segments, cut_i,
                   created_shorts, poolVars, disabled_log>>
    /\ UNCHANGED calls

\* lines 785-806: one clip; slicing a description that is not a string
\* raises after the upload was made
psv_upload(E) ==
    /\ pc = "upload" /\ up_i <= Len(created_shorts)
    /\ LET short == created_shorts[up_i]
           rec == [item |-> Cur, n |-> short.n,
                   duration |-> short.segment.end - short.segment.start]
       IN \E result \in E.upload :
            /\ calls' = [calls EXCEPT !.upload = @ + 1]
            /\ IF ~result
               THEN /\ up_i' = up_i + 1
                    /\ UNCHANGED <<uploaded, session_new, stats, pc>>
               ELSE /\ uploaded' = uploaded \cup {<<Cur, short.n>>}
                    /\ IF ~short.segment.desc_str
                       THEN /\ Return([stats EXCEPT !.error = "exception"])
                            /\ UNCHANGED <<session_new, up_i>>
                       ELSE /\ session_new' = session_new \cup {rec}
                            /\ stats' = [stats EXCEPT !.shorts_created = @ + 1]
                            /\ up_i' = up_i + 1
                            /\ UNCHANGED pc
    /\ UNCHANGED <<gemVars, storeVars, db, pv, no_transcript_videos, videos, files,
                   mainVars, fetchVars, callVars, an_attempt, segments, cut_i,
                   created_shorts, poolVars, disabled_log>>

\* lines 808-818
psv_finish ==
    /\ pc = "upload" /\ up_i > Len(created_shorts)
    /\ CommitTo(pv)
    /\ files' = [files EXCEPT !.video = FALSE]
    /\ Return([stats EXCEPT !.success = TRUE])
    /\ UNCHANGED <<gemVars, storeVars, no_transcript_videos, uploaded, mainVars,
                   fetchVars, callVars, cutVars, poolVars, disabled_log>>
    /\ UNCHANGED calls

\* The behaviours of the external services a specification lets happen
AllEnv ==
    [transcript |-> TranscriptOutcomes, provisioning |-> BOOLEAN, raises |-> BOOLEAN,
     download |-> BOOLEAN,
     gemini |-> GeminiOutcomes, hf |-> HFOutcomes, cut |-> BOOLEAN, upload |-> BOOLEAN]

NextOf(E) ==
    \/ main_start \/ main_loop \/ main_after_item
    \/ psv_begin \/ fetch_step(E) \/ psv_transcript \/ psv_mark_downloading
    \/ psv_download(E) \/ gemini_step(E) \/ psv_availability \/ analyze(E)
    \/ psv_analysis \/ psv_cut(E) \/ psv_cut_done \/ psv_upload(E) \/ psv_finish

\* Spec: each collaborator answers in each of its classes of answers

SpecEnv ==
    [transcript |-> {[kind |-> "transcript", status |-> 200], [kind |-> "empty", status |-> 200],
                     [kind |-> "http", status |-> 404], [kind |-> "http", status |-> 429],
                     [kind |-> "request_exception", status |-> 0]},
     provisioning |-> BOOLEAN, raises |-> {FALSE}, download |-> BOOLEAN,
     gemini |-> {GeminiOk("avail_false"), GeminiOk("segs_ok"), GeminiOk("segs_baddesc"),
                 GeminiOk("segs_badtitle"), GeminiOk("garbage"), GeminiHttp(429)},
     hf |-> {[kind |-> "fail", text |-> ""], [kind |-> "ok", text |-> "segs_ok"]},
     cut |-> BOOLEAN, upload |-> BOOLEAN]

\* SpecChain: the AI providers answer in every way, the rest succeeds
ChainEnv ==
    [AllEnv EXCEPT !.transcript = {[kind |-> "transcript", status |-> 200]},
                   !.provisioning = {TRUE}, !.raises = {FALSE}, !.download = {TRUE},
                   !.cut = {TRUE}, !.upload = {TRUE}]

\* SpecFetch: the transcript provider answers in every way, the rest succeeds
FetchEnv ==
    [AllEnv EXCEPT !.download = {TRUE}, !.gemini = {GeminiOk("segs_ok")},
                   !.hf = {[kind |-> "fail", text |-> ""]},
                   !.cut = {TRUE}, !.upload = {TRUE}]

Next == NextOf(SpecEnv)

Spec == Init /\ [][Next]_vars

\* SpecChain starts with one transcript credential in the store
InitChain == Init /\ api_keys = InitApiKeys(1)

NextChain == NextOf(ChainEnv)

SpecChain == InitChain /\ [][NextChain]_vars

\* SpecUsage: SpecFetch on a table of BatchItems rows, so that an item
\* finds the transcript credentials as the items before it left them
UsageEnv ==
    [FetchEnv EXCEPT !.transcript = {[kind |-> "transcript", status |-> 200],
                                     [kind |-> "empty", status |-> 200],
                                     [kind |-> "http", status |-> 404],
                                     [kind |-> "http", status |-> 429],
                                     [kind |-> "http", status |-> 500],
                                     [kind |-> "request_exception", status |-> 0]},
                     !.raises = {FALSE}]

InitUsage ==
    /\ InitRows(1..BatchItems)
    /\ api_keys = InitApiKeys(MaxInitApiKeys)
    /\ \A j \in 1..NumGeminiKeys : GEMINI_KEYS[j].status = "active"
    /\ pc = "idle"

NextUsage == NextOf(UsageEnv)

SpecUsage == InitUsage /\ [][NextUsage]_vars

\* SpecRotation: a GEMINI_KEYS_JSON of RotationKeys active entries, and a
\* primary AI provider that answers, refuses the credential or is
\* unreachable; the rest succeeds
RotationEnv ==
    [ChainEnv EXCEPT !.gemini = {GeminiOk("avail_true"), GeminiOk("segs_ok"),
                                 GeminiHttp(403), GeminiHttp(503), GeminiError},
                     !.hf = {[kind |-> "fail", text |-> ""],
                             [kind |-> "ok", text |-> "segs_ok"]}]

InitRotation ==
    /\ GEMINI_KEYS = [j \in 1..RotationKeys |-> [key |-> j, status |-> "active"]]
    /\ InitTables(Items) /\ save = NoSave
    /\ api_keys = InitApiKeys(1)
    /\ pc = "idle"

NextRotation == NextOf(RotationEnv)

SpecRotation == InitRotation /\ [][NextRotation]_vars

\* SpecFetch starts with every entry of GEMINI_KEYS_JSON active
InitFetch == Init /\ \A j \in 1..NumGeminiKeys : GEMINI_KEYS[j].status = "active"

NextFetch == NextOf(FetchEnv)

SpecFetch == InitFetch /\ [][NextFetch]_vars

\* SpecBatch: a run over BatchItems pending rows.  Each step of an item
\* succeeds or fails; main is one thread and every call it makes returns,
\* so a step that can be taken is taken (weak fairness of the whole program).
BatchEnv ==
    [transcript |-> {[kind |-> "transcript", status |-> 200], [kind |-> "http", status |-> 404]},
     provisioning |-> {TRUE}, raises |-> {FALSE}, download |-> BOOLEAN,
     gemini |-> {GeminiOk("avail_false"), GeminiOk("segs_ok"), GeminiOk("segs_badtitle"),
                 GeminiHttp(429)},
     hf |-> {[kind |-> "fail", text |-> ""]},
     cut |-> BOOLEAN, upload |-> {TRUE}]

InitBatch ==
    /\ InitRows(1..BatchItems) /\ pc = "idle"
    /\ api_keys = InitApiKeys(1)
    /\ \A j \in 1..NumGeminiKeys : GEMINI_KEYS[j].status = "active"

NextBatch == NextOf(BatchEnv)

SpecBatch == InitBatch /\ [][NextBatch]_vars /\ WF_vars(NextBatch)

\* SpecRetry: the answers that make the program try again: a transcript
\* request that is rejected or does not get through, a provisioning that
\* fails, a primary provider that cannot be reached or answers without
\* segments.  The program is one thread and every call returns (weak
\* fairness of the whole program).
RetryEnv ==
    [transcript |-> {[kind |-> "transcript", status |-> 200], [kind |-> "http", status |-> 429],
                     [kind |-> "request_exception", status |-> 0],
                     [kind |-> "no_field", status |-> 200]},
     provisioning |-> BOOLEAN, raises |-> {FALSE}, download |-> {TRUE},
     gemini |-> {GeminiOk("segs_ok"), GeminiOk("garbage"), GeminiError},
     hf |-> {[kind |-> "fail", text |-> ""], [kind |-> "ok", text |-> "segs_ok"]},
     cut |-> {TRUE}, upload |-> {TRUE}]

\* one transcript credential in the store, every entry of GEMINI_KEYS_JSON
\* active
InitRetry == InitFetch /\ api_keys = InitApiKeys(1)

NextRetry == NextOf(RetryEnv)

SpecRetry == InitRetry /\ [][NextRetry]_vars /\ WF_vars(NextRetry)

----------------------------------------------------------------------------
(* SpecPools: the operations of a pool, called in any order by a process   *)
(* that may be restarted.  The two pools share no state, so a behaviour    *)
(* works on one of them: pc is "pools_ai" or "pools_transcript".           *)

DisableReasons == {FatalReason(401), FatalReason(429)}

StartProcess ==
    /\ keys' = KMInitKeys(GEMINI_KEYS)
    /\ current_index' \in KMStartIndexes(keys')
    /\ disabled_log' = LogRestart(disabled_log)
    /\ acquired' = NoAcquired

InitPools ==
    /\ InitCommon
    /\ pc = "start"

PoolOp(svc) == pc = svc /\ ops < MaxOps /\ ops' = ops + 1

poolFrame == <<GEMINI_KEYS, dbVars, no_transcript_videos, videos, files, uploaded, pc,
               mainVars, fetchVars, callVars, cutVars, stats, calls, parse_input, prov,
               workers, save>>

\* GeminiKeyManager(GEMINI_KEYS) in a new process
pools_start ==
    /\ pc \in {"start", "pools_ai", "pools_transcript"}
    /\ run < 1 + MaxRestarts
    /\ StartProcess
    /\ run' = run + 1
    /\ pc' \in (IF pc = "start" THEN {"pools_ai", "pools_transcript"} ELSE {pc})
    /\ UNCHANGED <<GEMINI_KEYS, storeVars, dbVars, files, uploaded, pending_videos,
                   item_i, processed, fetchVars, callVars, cutVars, stats, ops, calls,
                   parse_input, prov, workers, save>>

km_get_current_key ==
    /\ PoolOp("pools_ai")
    /\ LET g == get_current_key(keys, current_index)
       IN /\ current_index' = g.current_index
          /\ acquired' = [pool |-> "ai", key |-> g.key]
    /\ UNCHANGED <<poolFrame, keys, storeVars, disabled_log>>

km_rotate_key ==
    /\ PoolOp("pools_ai")
    /\ current_index' = rotate_key(keys, current_index)
    /\ acquired' = NoAcquired
    /\ UNCHANGED <<poolFrame, keys, storeVars, disabled_log>>

km_disable_current_key ==
    /\ PoolOp("pools_ai")
    /\ LET d == disable_current_key(keys, current_index)
       IN /\ keys' = d.keys
          /\ current_index' = d.current_index
          /\ disabled_log' = LogAI(disabled_log, d.disabled)
    /\ acquired' = NoAcquired
    /\ UNCHANGED <<poolFrame, storeVars>>

pool_get_active_key ==
    /\ PoolOp("pools_transcript")
    /\ \E pick \in (IF get_active_key(api_keys) = {} THEN {NoKey} ELSE get_active_key(api_keys)) :
         acquired' = [pool |-> "transcript", key |-> pick]
    /\ UNCHANGED <<poolFrame, keys, current_index, storeVars, disabled_log>>

pool_mark_key_used ==
    /\ PoolOp("pools_transcript")
    /\ \E key_id \in ApiKeyIds :
         /\ api_keys' = mark_key_used(api_keys, clock + 1, key_id)
         /\ clock' = clock + 1
    /\ acquired' = NoAcquired
    /\ UNCHANGED <<poolFrame, keys, current_index, disabled_log>>

pool_disable_key ==
    /\ PoolOp("pools_transcript")
    /\ \E key_id \in ApiKeyIds, reason \in DisableReasons :
         /\ api_keys' = disable_key(api_keys, key_id, reason)
         /\ disabled_log' = LogTranscript(disabled_log,
                               IF api_keys[key_id].status # "absent" THEN {key_id} ELSE {})
    /\ acquired' = NoAcquired
    /\ UNCHANGED <<poolFrame, keys, current_index, clock>>

pool_auto_register ==
    /\ PoolOp("pools_transcript")
    /\ \E ok \in BOOLEAN :
         api_keys' = auto_register_and_save_key(api_keys, ok).api_keys
    /\ acquired' = NoAcquired
    /\ UNCHANGED <<poolFrame, keys, current_index, clock, disabled_log>>

NextPools ==
    \/ pools_start \/ km_get_current_key \/ km_rotate_key \/ km_disable_current_key
    \/ pool_get_active_key \/ pool_mark_key_used \/ pool_disable_key
    \/ pool_auto_register

SpecPools == InitPools /\ [][NextPools]_vars

----------------------------------------------------------------------------
(* SpecParse: parse_gemini_response applied to a response whose text holds *)
(* up to MaxSegs segments with start and end among Times.                  *)

Times == {0, 1, 121}

SegEntries ==
    {Seg(st, en, f, TRUE, TRUE) : st \in Times, en \in Times, f \in BOOLEAN}

SegLists == UNION {[1..n -> SegEntries] : n \in 0..MaxSegs}

ParseInputs ==
    {ParseInput(c, j, h, segs) : c \in BOOLEAN, j \in BOOLEAN, h \in BOOLEAN,
                                 segs \in SegLists}

\* parse_gemini_response reads neither the key pools nor the store
InitParse ==
    /\ InitCommon /\ pc = "parse"
    /\ api_keys = InitApiKeys(0)
    /\ \A j \in 1..NumGeminiKeys : GEMINI_KEYS[j].status = "active"

parseFrame == <<gemVars, storeVars, dbVars, files, uploaded, mainVars, fetchVars,
                callVars, an_attempt, cut_i, created_shorts, up_i, stats,
                disabled_log, acquired, ops, calls, prov, workers, save>>

\* a response arrives
parse_receive ==
    /\ pc = "parse"
    /\ parse_input' \in ParseInputs
    /\ pc' = "parse_call"
    /\ UNCHANGED <<parseFrame, segments>>

\* segments = parse_gemini_response(response)
parse_call ==
    /\ pc = "parse_call"
    /\ segments' = parse_data(parse_input)
    /\ pc' = "parse_done"
    /\ UNCHANGED <<parseFrame, parse_input>>

NextParse == parse_receive \/ parse_call

SpecParse == InitParse /\ [][NextParse]_vars

----------------------------------------------------------------------------
(* SpecProv: fetch_transcript_with_retry with auto_register_and_save_key   *)
(* taken step by step.  Every helper of the workflow catches its own       *)
(* exceptions and returns None or False; the workflow itself has no        *)
(* handler, so what it does with a helper's answer may raise.              *)

StepOrder == <<"mailbox", "register", "login", "send_code", "retrieve_code",
               "verify", "fetch_key", "persist">>

\* wait_for_testmail_message, extract_otp_from_testmail (lines 855-867)
TestmailAnswers == {"ok", "no_message", "no_code"}

\* lines 869-920: get_email_list, the entry with our id, get_email_detail,
\* its items, the first message's id, get_email_message,
\* extract_otp_from_html.  A 'data' that is not a list of objects passes
\* get_email_list (lines 266-269) and makes e.get('id') raise at line 883;
\* items that are not objects pass get_email_detail (lines 306-310) and make
\* first_message.get('id') raise at line 904.
TempmailAnswers == {"ok", "no_list", "not_found", "no_detail", "no_items",
                    "no_message_id", "no_message", "no_code",
                    "list_not_of_objects", "items_not_of_objects"}

TempmailRaises == {"list_not_of_objects", "items_not_of_objects"}

\* The answers of the transcript endpoint in SpecProv
ProvTranscript ==
    {[kind |-> "transcript", status |-> 200], [kind |-> "http", status |-> 429],
     [kind |-> "http", status |-> 404]}

NewProv(store, q) == [NoProv EXCEPT !.result = "running", !.before = store, !.query_ok = q]

Did(p, step, ok) == [p EXCEPT !.steps = Append(@, [step |-> step, ok |-> ok])]

provFrame == <<gemVars, dbVars, files, uploaded, mainVars, callVars, cutVars, stats,
               ops, calls, parse_input, workers, save>>

\* auto_register_and_save_key returns to line 991 with result res; None is
\* followed by the continue of line 995
ProvReturn(p, res, store) ==
    /\ prov' = [p EXCEPT !.result = res, !.after = store]
    /\ CASE res = "key" ->
              /\ pc' = "pfetch_request"
              /\ acquired' = [pool |-> "transcript", key |-> p.key]
              /\ UNCHANGED <<attempt, transcript>>
         [] res = "None" ->
              /\ acquired' = NoAcquired /\ transcript' = FALSE
              /\ IF attempt + 1 < max_attempts
                 THEN attempt' = attempt + 1 /\ pc' = "pfetch"
                 ELSE attempt' = attempt /\ pc' = "pdone"
         [] OTHER ->
              /\ acquired' = NoAcquired /\ pc' = "pdone"
              /\ UNCHANGED <<attempt, transcript>>

\* a step whose helper answers with a value, or with None or False
ProvStep(here, step, next) ==
    /\ pc = here
    /\ \E ok \in BOOLEAN :
         IF ok
         THEN /\ prov' = Did(prov, step, TRUE)
              /\ pc' = next
              /\ UNCHANGED <<attempt, transcript, acquired>>
         ELSE ProvReturn(Did(prov, step, FALSE), "None", api_keys)
    /\ UNCHANGED <<provFrame, storeVars, tlast, disabled_log>>

\* fetch_transcript_with_retry, lines 985-991: get_active_key returns the
\* least recently used active row, or None when there is none or when
\* the query raised (lines 87-89); None starts the workflow
pfetch_acquire ==
    /\ pc = "pfetch"
    /\ \E query_ok \in BOOLEAN :
         \E pick \in (IF query_ok /\ get_active_key(api_keys) # {}
                      THEN get_active_key(api_keys) ELSE {NoKey}) :
           /\ acquired' = [pool |-> "transcript", key |-> pick]
           /\ IF pick = NoKey
              THEN prov' = NewProv(api_keys, query_ok) /\ pc' = "prov_mailbox"
              ELSE pc' = "pfetch_request" /\ UNCHANGED prov
    /\ UNCHANGED <<provFrame, storeVars, fetchVars, disabled_log>>

\* lines 997-1101: the request with key_obj and what follows from its answer
pfetch_request ==
    /\ pc = "pfetch_request"
    /\ \E out \in ProvTranscript :
         LET r == fetch_iteration(api_keys, clock, attempt, acquired.key, FALSE, out)
             again == r.act = "continue" /\ attempt + 1 < max_attempts
         IN /\ api_keys' = r.api_keys
            /\ clock' = r.clock
            /\ disabled_log' = LogTranscript(disabled_log, r.disabled)
            /\ IF again
               THEN attempt' = attempt + 1 /\ pc' = "pfetch" /\ UNCHANGED transcript
               ELSE attempt' = attempt /\ pc' = "pdone"
                    /\ transcript' = (r.act = "return" /\ r.transcript)
    /\ UNCHANGED <<provFrame, tlast, acquired, prov>>

\* lines 806-809 and 819-820: create_temp_email
prov_mailbox_primary ==
    /\ pc = "prov_mailbox"
    /\ \E ok \in BOOLEAN :
         IF ok
         THEN /\ prov' = [Did(prov, "mailbox", TRUE) EXCEPT !.primary = "ok"]
              /\ pc' = "prov_register"
         ELSE /\ prov' = [prov EXCEPT !.primary = "failed"]
              /\ pc' = "prov_mailbox2"
    /\ UNCHANGED <<provFrame, storeVars, fetchVars, disabled_log, acquired>>

\* lines 809-818: create_testmail_email
prov_mailbox_secondary ==
    /\ pc = "prov_mailbox2"
    /\ \E ok \in BOOLEAN :
         IF ok
         THEN /\ prov' = [Did(prov, "mailbox", TRUE) EXCEPT !.secondary = "ok",
                                                            !.use_testmail = TRUE]
              /\ pc' = "prov_register"
              /\ UNCHANGED <<attempt, transcript, acquired>>
         ELSE ProvReturn([Did(prov, "mailbox", FALSE) EXCEPT !.secondary = "failed"],
                         "None", api_keys)
    /\ UNCHANGED <<provFrame, storeVars, tlast, disabled_log>>

\* lines 833-835: register_account
prov_register == ProvStep("prov_register", "register", "prov_login")

\* prov_login without the return at line 844
prov_login_no_return ==
    /\ pc = "prov_login"
    /\ \E ok \in BOOLEAN :
         /\ prov' = Did(prov, "login", ok)
         /\ pc' = "prov_send"
         /\ UNCHANGED <<attempt, transcript, acquired>>
    /\ UNCHANGED <<provFrame, storeVars, tlast, disabled_log>>

\* lines 841-844: login_account
prov_login == ProvStep("prov_login", "login", "prov_send")

\* lines 850-852: send_verification_otp
prov_send == ProvStep("prov_send", "send_code", "prov_retrieve")

\* prov_retrieve reading the primary provider's mailbox whichever
\* provider supplied the address
prov_retrieve_primary_only ==
    /\ pc = "prov_retrieve"
    /\ \E a \in TempmailAnswers :
         LET p == [Did(prov, "retrieve_code", a = "ok") EXCEPT !.path = "primary"]
         IN IF a = "ok"
            THEN /\ prov' = p /\ pc' = "prov_verify"
                 /\ UNCHANGED <<attempt, transcript, acquired>>
            ELSE ProvReturn(p, IF a \in TempmailRaises THEN "raised" ELSE "None", api_keys)
    /\ UNCHANGED <<provFrame, storeVars, tlast, disabled_log>>

\* lines 853-920: the code is read from the mailbox of use_testmail
prov_retrieve ==
    /\ pc = "prov_retrieve"
    /\ \E a \in (IF prov.use_testmail THEN TestmailAnswers ELSE TempmailAnswers) :
         LET p == [Did(prov, "retrieve_code", a = "ok") EXCEPT
                      !.path = IF prov.use_testmail THEN "secondary" ELSE "primary"]
         IN IF a = "ok"
            THEN /\ prov' = p /\ pc' = "prov_verify"
                 /\ UNCHANGED <<attempt, transcript, acquired>>
            ELSE ProvReturn(p, IF a \in TempmailRaises THEN "raised" ELSE "None", api_keys)
    /\ UNCHANGED <<provFrame, storeVars, tlast, disabled_log>>

\* lines 924-926: verify_email_with_otp
prov_verify == ProvStep("prov_verify", "verify", "prov_key")

\* lines 932-935: get_api_key_from_account
prov_fetch_key == ProvStep("prov_key", "fetch_key", "prov_persist")

\* lines 939-963: the row is added and committed, or the commit raises and
\* the session is rolled back
prov_persist ==
    /\ pc = "prov_persist"
    /\ \E commit_ok \in BOOLEAN :
         LET reg == auto_register_and_save_key(api_keys, commit_ok)
             ok == reg.key # NoKey
         IN /\ api_keys' = reg.api_keys
            /\ ProvReturn([Did(prov, "persist", ok) EXCEPT !.key = reg.key],
                          IF ok THEN "key" ELSE "None", reg.api_keys)
    /\ UNCHANGED <<provFrame, clock, tlast, disabled_log>>

InitProv ==
    /\ InitCommon /\ pc = "pfetch"
    /\ \A j \in 1..NumGeminiKeys : GEMINI_KEYS[j].status = "active"

NextProv ==
    \/ pfetch_acquire \/ pfetch_request
    \/ prov_mailbox_primary \/ prov_mailbox_secondary \/ prov_register
    \/ prov_login \/ prov_send \/ prov_retrieve \/ prov_verify \/ prov_fetch_key
    \/ prov_persist

SpecProv == InitProv /\ [][NextProv]_vars

----------------------------------------------------------------------------
(* SpecWorkersAI and SpecWorkersFetch: NumWorkers callers at once.  The    *)
(* program has one thread and takes no lock anywhere; a caller here is a   *)
(* thread given the same GeminiKeyManager (SpecWorkersAI) or a process run *)
(* on the same database (SpecWorkersFetch).  A step is what a caller does  *)
(* between two waits for an external answer.                               *)

workersFrame == <<GEMINI_KEYS, dbVars, files, uploaded, pc, mainVars, fetchVars, callVars,
                  cutVars, stats, acquired, ops, calls, parse_input, prov, save>>

\* The answers of the primary provider in SpecWorkersAI
WorkerGemini == {GeminiOk("segs_ok"), GeminiHttp(429), GeminiError}

InitWorkersAI ==
    /\ InitCommon /\ pc = "workers"
    /\ api_keys = InitApiKeys(0)
    /\ \A j \in 1..NumGeminiKeys : GEMINI_KEYS[j].status = "active"

\* main, line 845: the one GeminiKeyManager the callers are given
workers_start ==
    /\ pc = "workers" /\ run = 0
    /\ run' = 1
    /\ keys' = KMInitKeys(GEMINI_KEYS)
    /\ current_index' \in KMStartIndexes(keys')
    /\ UNCHANGED <<GEMINI_KEYS, storeVars, dbVars, files, uploaded, pc, pending_videos,
                   item_i, processed, fetchVars, callVars, cutVars, stats, acquired,
                   ops, calls, parse_input, prov, disabled_log, workers, save>>

\* call_gemini_api, lines 265-307: the budget, get_current_key, and the
\* request is sent with the key
wa_acquire(w) ==
    /\ pc = "workers" /\ run = 1
    /\ workers[w].pc \in {"idle", "acquire"}
    /\ LET g == get_current_key(keys, current_index)
           sends == workers[w].retry_count < MAX_GEMINI_RETRIES /\ g.key # NoKey
       IN /\ current_index' = IF workers[w].retry_count < MAX_GEMINI_RETRIES
                              THEN g.current_index ELSE current_index
          /\ workers' = [workers EXCEPT ![w].pc = IF sends THEN "sent" ELSE "done",
                                        ![w].key = IF sends THEN g.key ELSE NoKey]
    /\ UNCHANGED <<workersFrame, keys, storeVars, disabled_log>>

\* call_gemini_api, lines 309-361: the answer to the request of caller w,
\* handled on the key manager as it is now
wa_answer(w) ==
    /\ pc = "workers" /\ run = 1
    /\ workers[w].pc = "sent"
    /\ \E out \in WorkerGemini :
         LET f == call_gemini_api(keys, current_index, workers[w].retry_count, out, NoAnswer)
         IN /\ keys' = f.keys
            /\ current_index' = f.current_index
            /\ disabled_log' = LogAI(disabled_log, f.disabled)
            /\ workers' = [workers EXCEPT
                  ![w].pc = IF f.done THEN "done" ELSE "acquire",
                  ![w].retry_count = f.retry_count,
                  ![w].fatal = IF CredentialFatalAI(out) THEN workers[w].key ELSE @]
    /\ UNCHANGED <<workersFrame, storeVars>>

NextWorkersAI ==
    \/ workers_start
    \/ \E w \in Workers : wa_acquire(w) \/ wa_answer(w)

SpecWorkersAI == InitWorkersAI /\ [][NextWorkersAI]_vars

\* The answers of the transcript endpoint in SpecWorkersFetch
WorkerTranscript ==
    {[kind |-> "transcript", status |-> 200], [kind |-> "http", status |-> 429]}

InitWorkersFetch ==
    /\ InitCommon /\ pc = "workers"
    /\ \A j \in 1..NumGeminiKeys : GEMINI_KEYS[j].status = "active"

\* fetch_transcript_with_retry, lines 985-991: get_active_key; None starts
\* the workflow
wf_acquire(w) ==
    /\ pc = "workers"
    /\ workers[w].pc \in {"idle", "acquire"}
    /\ \E pick \in (IF get_active_key(api_keys) = {} THEN {NoKey}
                    ELSE get_active_key(api_keys)) :
         workers' = [workers EXCEPT ![w].key = pick,
                        ![w].pc = IF pick = NoKey THEN "provisioning" ELSE "sent"]
    /\ UNCHANGED <<workersFrame, gemVars, storeVars, disabled_log>>

\* auto_register_and_save_key returns to line 991: the new row, or None
\* and the continue of line 995
wf_provisioned(w) ==
    /\ pc = "workers"
    /\ workers[w].pc = "provisioning"
    /\ \E ok \in BOOLEAN :
         LET reg == auto_register_and_save_key(api_keys, ok)
             more == workers[w].attempt + 1 < max_attempts
         IN /\ api_keys' = reg.api_keys
            /\ workers' = [workers EXCEPT
                  ![w].key = reg.key,
                  ![w].provisioned = @ + (IF reg.key # NoKey THEN 1 ELSE 0),
                  ![w].pc = IF reg.key # NoKey THEN "sent"
                            ELSE IF more THEN "acquire" ELSE "done",
                  ![w].attempt = IF reg.key = NoKey /\ more THEN @ + 1 ELSE @]
    /\ UNCHANGED <<workersFrame, gemVars, clock, disabled_log>>

\* lines 997-1101: the answer to the request of caller w
wf_answer(w) ==
    /\ pc = "workers"
    /\ workers[w].pc = "sent"
    /\ \E out \in WorkerTranscript :
         LET r == fetch_iteration(api_keys, clock, workers[w].attempt, workers[w].key,
                                  FALSE, out)
             again == r.act = "continue" /\ workers[w].attempt + 1 < max_attempts
         IN /\ api_keys' = r.api_keys
            /\ clock' = r.clock
            /\ disabled_log' = LogTranscript(disabled_log, r.disabled)
            /\ workers' = [workers EXCEPT
                  ![w].pc = IF again THEN "acquire" ELSE "done",
                  ![w].attempt = IF again THEN @ + 1 ELSE @]
    /\ UNCHANGED <<workersFrame, gemVars>>

NextWorkersFetch ==
    \E w \in Workers : wf_acquire(w) \/ wf_provisioned(w) \/ wf_answer(w)

SpecWorkersFetch == InitWorkersFetch /\ [][NextWorkersFetch]_vars

----------------------------------------------------------------------------
(* SpecSave: fetch_playlist.save_videos_to_db, called twice with the same  *)
(* list.  A row of playlist_videos is its video_id and its task; an entry  *)
(* of the list is complete ("ok"), has url None ("no_url": the NOT NULL     *)
(* column makes the commit raise IntegrityError) or lacks the key 'title'  *)
(* ("no_title": KeyError).                                                  *)

VideoIds == 1..MaxVideos

DoneTask == [transcript_status |-> "completed", download_status |-> "completed",
             analysis_status |-> "completed", conversion_status |-> "completed",
             shorts_count |-> 1]

PlaylistEntries ==
    {[video_id |-> v, kind |-> k] : v \in VideoIds, k \in {"ok", "no_url", "no_title"}}

PlaylistLists == UNION {[1..n -> PlaylistEntries] : n \in 0..MaxVideos}

\* The tables the script can find: video_id is unique, a row is untouched
\* or was processed
SavedTables ==
    LET T(f) ==
          LET F[n \in 0..MaxVideos] ==
                IF n = 0 THEN <<>>
                ELSE IF f[n] = "absent" THEN F[n - 1]
                     ELSE Append(F[n - 1],
                                 [video_id |-> n,
                                  task |-> IF f[n] = "pending" THEN NewTask ELSE DoneTask])
          IN F[MaxVideos]
    IN {T(f) : f \in [VideoIds -> {"absent", "pending", "completed"}]}

Existing(table, video_id) == \E j \in 1..Len(table) : table[j].video_id = video_id

\* save_video without the continue of line 185: an existing video is
\* counted and then inserted
save_video_no_continue(table, counts, video, commit_ok) ==
    LET st == IF Existing(table, video.video_id) /\ video.kind # "no_title"
              THEN [counts EXCEPT !.skipped = @ + 1] ELSE counts
    IN IF video.kind = "no_title"
       THEN [table |-> table, stats |-> [st EXCEPT !.failed = @ + 1]]
       ELSE IF video.kind = "no_url" \/ Existing(table, video.video_id)
       THEN [table |-> table, stats |-> [st EXCEPT !.skipped = @ + 1]]
       ELSE IF ~commit_ok
       THEN [table |-> table, stats |-> [st EXCEPT !.failed = @ + 1]]
       ELSE [table |-> Append(table, [video_id |-> video.video_id, task |-> NewTask]),
             stats |-> [st EXCEPT !.inserted = @ + 1]]

\* One iteration of the loop of save_videos_to_db (lines 175-216).  The
\* f-string of line 183 and the constructor of line 192 read video['title'];
\* commit_ok FALSE is a commit that raises another exception than
\* IntegrityError.
save_video(table, counts, video, commit_ok) ==
    IF video.kind = "no_title"
    THEN [table |-> table, stats |-> [counts EXCEPT !.failed = @ + 1]]
    ELSE IF Existing(table, video.video_id)
    THEN [table |-> table, stats |-> [counts EXCEPT !.skipped = @ + 1]]
    ELSE IF video.kind = "no_url"
    THEN [table |-> table, stats |-> [counts EXCEPT !.skipped = @ + 1]]
    ELSE IF ~commit_ok
    THEN [table |-> table, stats |-> [counts EXCEPT !.failed = @ + 1]]
    ELSE [table |-> Append(table, [video_id |-> video.video_id, task |-> NewTask]),
          stats |-> [counts EXCEPT !.inserted = @ + 1]]

InitSave ==
    /\ GEMINI_KEYS = [j \in 1..NumGeminiKeys |-> [key |-> j, status |-> "active"]]
    /\ InitTables(Items)
    /\ api_keys = InitApiKeys(0)
    /\ pc = "save"
    /\ \E table \in SavedTables, list \in PlaylistLists :
          save = [NoSave EXCEPT !.table = table, !.videos = list, !.i = 1, !.pass = 1]

saveFrame == <<gemVars, storeVars, dbVars, files, uploaded, mainVars, fetchVars,
               callVars, cutVars, stats, disabled_log, acquired, ops, calls,
               parse_input, prov, workers>>

\* lines 175-216: the next video of the list
save_next_video ==
    /\ pc = "save" /\ save.i <= Len(save.videos)
    /\ \E commit_ok \in BOOLEAN :
         LET r == save_video(save.table, save.stats, save.videos[save.i], commit_ok)
         IN save' = [save EXCEPT !.table = r.table, !.stats = r.stats, !.i = @ + 1]
    /\ UNCHANGED <<saveFrame, pc>>

\* line 218: the call returns its statistics; the list is saved once more
save_return ==
    /\ pc = "save" /\ save.i > Len(save.videos)
    /\ IF save.pass = 1
       THEN /\ save' = [save EXCEPT !.first = save.stats, !.stats = NoSave.stats,
                                    !.i = 1, !.pass = 2]
            /\ UNCHANGED pc
       ELSE /\ pc' = "saved"
            /\ UNCHANGED save
    /\ UNCHANGED saveFrame

NextSave == save_next_video \/ save_return

SpecSave == InitSave /\ [][NextSave]_vars

----------------------------------------------------------------------------
(* The claims *)

Unfinished == {"pending", "failed"}

\* C1: in every committed state, no phase of an item is 'completed' while a
\* phase before it in the order transcript, download, analysis, conversion
\* is 'pending' or 'failed'.
C1_NoCompletedAfterUnfinished ==
    \A it \in Items :
        /\ db[it].download_status = "completed" =>
               db[it].transcript_status \notin Unfinished
        /\ db[it].analysis_status = "completed" =>
               /\ db[it].transcript_status \notin Unfinished
               /\ db[it].download_status \notin Unfinished
        /\ db[it].conversion_status = "completed" =>
               /\ db[it].transcript_status \notin Unfinished
               /\ db[it].download_status \notin Unfinished
               /\ db[it].analysis_status \notin Unfinished

C1_Witness ==
    \E it \in Items :
        /\ db[it].conversion_status = "completed"
        /\ db[it].analysis_status = "completed"
        /\ db[it].download_status = "completed"

\* The transitions of section 4.4, per phase
ListedTranscript == {<<"pending", "fetching">>, <<"fetching", "completed">>,
                     <<"fetching", "skipped">>}
ListedDownload == {<<"pending", "downloading">>, <<"downloading", "completed">>,
                   <<"downloading", "failed">>, <<"downloading", "skipped">>}
ListedAnalysis == {<<"pending", "completed">>, <<"pending", "failed">>,
                   <<"pending", "skipped">>}
ListedConversion == {<<"pending", "completed">>, <<"pending", "failed">>}

\* The transitions the code makes besides them
SkipDownload == {<<"pending", "skipped">>, <<"completed", "skipped">>}
SkipConversion == {<<"pending", "skipped">>}

Moves(old, new, allowed) == old = new \/ <<old, new>> \in allowed

StatusMoves(d, e, dl, cv) ==
    \A it \in Items :
        /\ Moves(d[it].transcript_status, e[it].transcript_status, ListedTranscript)
        /\ Moves(d[it].download_status, e[it].download_status, dl)
        /\ Moves(d[it].analysis_status, e[it].analysis_status, ListedAnalysis)
        /\ Moves(d[it].conversion_status, e[it].conversion_status, cv)

CallReturned == pc \in {"psv_availability", "analyze"}

ChainReturned == pc \in {"psv_availability", "psv_analysis"}

\* Every failed request of the call was a credential-fatal one
OnlyFatalFailures ==
    \/ obs.callReqs = obs.callFatalN
    \/ obs.callReqs = obs.callFatalN + 1 /\ obs.last.kind = "ok"

\* C4: a call of call_gemini_api that began with K keys in the working set
\* and met M < K credential-fatal responses (HTTP 400/403/429) and no other
\* failure has disabled exactly M keys and rotated exactly M times, and the
\* K-M keys that did not fail are the working set.
C4_FatalFailuresDisableAndRotate ==
    (/\ CallReturned
     /\ OnlyFatalFailures
     /\ obs.callFatalN < Cardinality(obs.callPool))
    => /\ Cardinality(obs.callDisabled) = obs.callFatalN
       /\ obs.callRots = obs.callFatalN
       /\ Range(keys) = obs.callPool \ obs.callFatal

\* C5: when a chain (the availability check or the analysis) has returned
\* and every key of the pool it began with received a credential-fatal
\* response, call_huggingface_api was called exactly once in it.
C5_BackupOnceWhenAllFatal ==
    (/\ ChainReturned
     /\ obs.chainPool # {}
     /\ obs.chainFatal = obs.chainPool)
    => obs.chainHf = 1

\* C6: a call of call_gemini_api that returns with the working set empty or
\* the retry budget used up has called the secondary provider, and a call
\* returns None only after it called the secondary provider and that failed.
C6_NoneOnlyAfterBackupFailed ==
    CallReturned =>
        /\ (keys = <<>> \/ retry_count >= MAX_GEMINI_RETRIES) => obs.callHf >= 1
        /\ ~response.ok => obs.callHf >= 1 /\ obs.callHfFailed >= 1

\* C7: after a credential-fatal response (HTTP 400/403/429 to a Gemini
\* request, HTTP 401/402/403/429 to a transcript request) exactly the key
\* that was sent is disabled, the transcript row with the reason of that
\* status, and a retry that follows does not use that key.
C7_FatalDisablesUsedKey ==
    /\ (obs.last.kind = "http" /\ obs.last.status \in {400, 403, 429}) =>
           /\ obs.last.disabled = {obs.last.used}
           /\ obs.last.used \notin Range(keys)
           /\ obs.last.contd =>
                  get_current_key(keys, current_index).key # obs.last.used
    /\ (tlast.kind = "http" /\ tlast.status \in {401, 402, 403, 429}) =>
           /\ tlast.disabled = {tlast.used}
           /\ api_keys[tlast.used].status = "disabled"
           /\ api_keys[tlast.used].disabled_reason = FatalReason(tlast.status)
           /\ tlast.used \notin get_active_key(api_keys)

\* C8: a transient failure (HTTP 503 or a network error from Gemini, a
\* network error from the transcript provider) disables no key and removes
\* none from the working set, and the call goes on to its next try: the
\* Gemini call re-invokes itself, the transcript loop continues while
\* attempts remain.
C8_TransientKeepsKeysAndRetries ==
    /\ ((obs.last.kind = "http" /\ obs.last.status = 503) \/ obs.last.kind = "error") =>
           /\ obs.last.disabled = {}
           /\ obs.last.used \in Range(keys)
           /\ obs.last.contd
    /\ tlast.kind = "request_exception" =>
           /\ tlast.disabled = {}
           /\ api_keys[tlast.used].status = "active"
           /\ tlast.attempt < max_attempts - 1 => tlast.act = "continue"

\* C9: a pool never holds a credential that was disabled, in this process
\* or in one before a restart: the working set of the GeminiKeyManager has
\* no key that any process disabled, and no disabled transcript row is
\* active.
C9_DisabledNeverRebuilt ==
    /\ Range(keys) \cap disabled_log.ai_ever = {}
    /\ ActiveIds(api_keys) \cap disabled_log.transcript = {}

\* The response holds a text that json.loads accepts
Parsed(r) == r.ok /\ r.cand /\ IsJson(r.text)

\* C10: check_video_availability returns True when the chain returned None
\* or its answer cannot be parsed, the parsed boolean otherwise, and False
\* only for an answer parsed with available false.
C10_AvailabilityFailsOpen ==
    pc = "psv_availability" =>
        LET r == check_video_availability(response)
        IN /\ ~Parsed(response) => r = "True"
           /\ (Parsed(response) /\ response.text = "avail_true") => r = "True"
           /\ (Parsed(response) /\ response.text = "avail_false") => r = "False"
           /\ r = "False" => Parsed(response) /\ response.text = "avail_false"

C10_Witness ==
    /\ pc = "psv_availability"
    /\ ~response.ok
    /\ obs.callHfFailed = 1

\* What the claim accepts: the four fields and a duration of at least 120
Accepted(seg) == seg.fields /\ seg.end - seg.start >= 120

WellFormed(inp) == inp.cand /\ inp.json /\ inp.has_segments

\* C11: parse_gemini_response keeps exactly the segments that have the four
\* fields and end - start >= 120, in the order of the response, and returns
\* None (no list at all) for a response without the text, with malformed
\* JSON or without the segments field.
C11_SegmentValidation ==
    pc = "parse_done" =>
        LET inp == parse_input.segments
            kept == {i \in 1..Len(inp) : Accepted(inp[i])}
        IN /\ ~WellFormed(parse_input) => segments = <<>>
           /\ WellFormed(parse_input) =>
                  /\ \A seg \in SegEntries :
                         seg \in Range(segments) <=> seg \in Range(inp) /\ Accepted(seg)
                  /\ Len(segments) = Cardinality(kept)
                  /\ \E f \in [1..Len(segments) -> 1..Len(inp)] :
                         /\ \A i \in 1..Len(segments) : segments[i] = inp[f[i]]
                         /\ \A i, j \in 1..Len(segments) : i < j => f[i] < f[j]

C11_Witness ==
    /\ pc = "parse_done"
    /\ WellFormed(parse_input)
    /\ Len(parse_input.segments) = 2
    /\ parse_input.segments[1].fields
    /\ parse_input.segments[1].end - parse_input.segments[1].start = 1
    /\ Len(segments) = 1
    /\ segments[1].end - segments[1].start = 120

TheSegment == Seg(60, 300, TRUE, TRUE, TRUE)

Statuses(row) == <<row.transcript_status, row.download_status,
                   row.analysis_status, row.conversion_status>>

\* C12: when the cutter and the upload succeed, an item whose analysis
\* returned the one segment {start 60, end 300} ends with one clip cut with
\* bounds 60 and 300, one upload, one Video row with duration 240, the four
\* phases completed and shorts_count 1.
C12_EndToEndSuccess ==
    (pc = "psv_ret" /\ segments = <<TheSegment>>) =>
        /\ stats.success /\ stats.shorts_created = 1
        /\ calls.cut = 1
        /\ created_shorts = <<[n |-> 1, segment |-> TheSegment]>>
        /\ calls.upload = 1
        /\ {u \in uploaded : u[1] = Cur} = {<<Cur, 1>>}
        /\ {v \in videos : v.item = Cur} = {[item |-> Cur, n |-> 1, duration |-> 240]}
        /\ Statuses(db[Cur]) = <<"completed", "completed", "completed", "completed">>
        /\ db[Cur].shorts_count = 1

C12_Witness ==
    /\ pc = "psv_ret"
    /\ segments = <<TheSegment>>
    /\ calls = [download |-> 1, availability |-> 1, analysis |-> 1, cut |-> 1, upload |-> 1]
    /\ db[Cur].conversion_status = "completed"

AllSkipped == <<"skipped", "skipped", "skipped", "skipped">>

\* fetch_transcript_with_retry returned None for a 404 or an empty transcript
NotFoundOrEmpty ==
    /\ tlast.act = "return"
    /\ \/ tlast.kind = "http" /\ tlast.status = 404
       \/ tlast.kind = "empty"

\* C13: when the transcript request was answered 404 or 200 with an empty
\* transcript, the next step of the item ends it: the four phases are
\* committed skipped, the item has a no_transcript_videos row, and neither
\* the download nor the availability check, the analysis, the cutter or the
\* upload was called.
C13_NoTranscriptSkipsAll ==
    [][(pc = "psv_transcript" /\ NotFoundOrEmpty) =>
          /\ pc' = "psv_ret"
          /\ Statuses(db'[Cur]) = AllSkipped
          /\ Cur \in no_transcript_videos'
          /\ calls' = NoCalls
          /\ ~files'.video /\ files'.clips = {}]_vars

C13_Witness ==
    /\ pc = "psv_ret"
    /\ stats.skipped /\ stats.error = "No transcript"
    /\ clock = 1
    /\ Cur \in no_transcript_videos
    /\ Statuses(db[Cur]) = AllSkipped

NoArtifacts(it) ==
    /\ {v \in videos \cup session_new : v.item = it} = {}
    /\ {u \in uploaded : u[1] = it} = {}

\* C14: when the download succeeded and check_video_availability returns a
\* false value, the next step of the item ends it: analysis and conversion
\* are committed skipped, the downloaded file is removed, and no analysis
\* call, cut or upload was made and no Video row exists for the item.
C14_UnavailableStops ==
    [][(pc = "psv_availability" /\ ~Truthy(check_video_availability(response))) =>
          /\ files.video
          /\ pc' = "psv_ret"
          /\ db'[Cur].analysis_status = "skipped"
          /\ db'[Cur].conversion_status = "skipped"
          /\ ~files'.video
          /\ calls'.analysis = 0 /\ calls'.cut = 0 /\ calls'.upload = 0
          /\ NoArtifacts(Cur)']_vars

C14_Witness ==
    /\ pc = "psv_ret"
    /\ stats.error = "Video unavailable"
    /\ calls.download = 1 /\ calls.availability = 1
    /\ ~files.video
    /\ db[Cur].analysis_status = "skipped"

C16_DownloadFailureStops ==
    [][/\ calls'.download <= 1
       /\ (pc = "download" /\ ~files'.video) =>
              /\ db'[Cur].download_status = "failed"
              /\ pc' = "psv_ret"
              /\ db'[Cur].analysis_status = db[Cur].analysis_status
              /\ db'[Cur].conversion_status = db[Cur].conversion_status
              /\ calls'.download = 1
              /\ calls'.availability = 0 /\ calls'.analysis = 0
              /\ obs' = obs]_vars

C16_Witness ==
    /\ pc = "psv_ret"
    /\ stats.error = "Download failed"
    /\ calls.download = 1
    /\ db[Cur].download_status = "failed"
    /\ db[Cur].analysis_status = "pending"
    /\ db[Cur].conversion_status = "pending"

\* C17: when analyze_transcript returned no segment (the chain failed or no
\* segment passed the validation), the next step commits analysis_status
\* failed and ends the item, conversion_status is still pending, and the
\* cutter and the uploader were not called.
C17_AnalysisFailureStops ==
    [][(pc = "psv_analysis" /\ segments = <<>>) =>
          /\ db'[Cur].analysis_status = "failed"
          /\ db'[Cur].conversion_status = "pending"
          /\ pc' = "psv_ret"
          /\ calls'.cut = 0 /\ calls'.upload = 0
          /\ NoArtifacts(Cur)']_vars

C17_Witness ==
    /\ pc = "psv_ret"
    /\ stats.error = "AI analysis failed"
    /\ calls.analysis = 1
    /\ db[Cur].analysis_status = "failed"
    /\ db[Cur].conversion_status = "pending"

\* C18 as stated: when an item has ended normally, its committed
\* shorts_count is the number of Video rows created for it, which is the
\* number of clips whose cut and upload both succeeded.
C18_CountIsArtifacts ==
    (pc = "psv_ret" /\ stats.success) =>
        /\ db[Cur].shorts_count = Cardinality({v \in videos : v.item = Cur})
        /\ db[Cur].shorts_count = stats.shorts_created

\* C19 as stated: when the cutter ran for an item, no exception was raised
\* and no clip was both cut and uploaded, the item ends with
\* conversion_status failed.
C19_NoClipMeansFailed ==
    (/\ pc = "psv_ret"
     /\ calls.cut >= 1
     /\ stats.error # "exception"
     /\ stats.shorts_created = 0)
    => db[Cur].conversion_status = "failed"

\* A step in which an exception is raised: sanitize_filename on a title that
\* is not a string, or the slice of a description that is not a string after
\* the clip was uploaded
RaisesAtCut == pc = "cut" /\ cut_i <= Len(segments) /\ ~segments[cut_i].title_str

RaisesAtUpload ==
    /\ pc = "upload" /\ up_i <= Len(created_shorts)
    /\ ~created_shorts[up_i].segment.desc_str
    /\ <<Cur, created_shorts[up_i].n>> \in uploaded'

\* C20: a step that raises an unexpected exception ends the item at once
\* with the error in its stats, and changes no committed or session status:
\* the phases already completed stay completed.
C20_ExceptionStopsNoRollback ==
    [][(RaisesAtCut \/ RaisesAtUpload) =>
          /\ pc' = "psv_ret"
          /\ stats'.error = "exception" /\ ~stats'.success
          /\ db' = db /\ pv' = pv
          /\ cut_i' = cut_i /\ up_i' = up_i]_vars

C20_Witness ==
    /\ pc = "psv_ret"
    /\ stats.error = "exception"
    /\ Statuses(db[Cur]) = <<"completed", "completed", "completed", "completed">>

----------------------------------------------------------------------------
(* Claims on the batch run *)

IsPrefix(a, b) == Len(a) <= Len(b) /\ SubSeq(b, 1, Len(a)) = a

Summary == pc = "idle" /\ run > 0

----------------------------------------------------------------------------
(* Claims on the provisioning workflow *)

ProvEnded == prov.result \in {"key", "None", "raised"}

StepsOk(p, n) == Len(p.steps) >= n /\ \A i \in 1..n : p.steps[i].ok

SomeStepFailed(p) == \E i \in 1..Len(p.steps) : ~p.steps[i].ok

\* C22: provisioning is all or nothing: the call changes the api_keys table
\* only when the seven steps before the persist step succeeded, and a call
\* in which a step failed returns None, without raising, and leaves the
\* table as it was.
C22_AllOrNothing ==
    ProvEnded =>
        /\ prov.after # prov.before => StepsOk(prov, Len(StepOrder) - 1)
        /\ ~StepsOk(prov, Len(StepOrder)) =>
               prov.result = "None" /\ prov.after = prov.before

\* C22, the part that the code keeps: a call that did not complete all of
\* its steps leaves the table as it was
C22_StoreUnchangedOnFailure ==
    ProvEnded /\ ~StepsOk(prov, Len(StepOrder)) => prov.after = prov.before

\* C23: the workflow is started only when get_active_key returned no
\* credential: while auto_register_and_save_key runs, the api_keys table
\* holds no active row.
C23_NoActiveWhileProvisioning ==
    prov.result = "running" => ActiveIds(api_keys) = {}

\* C23, the part that the code keeps: the workflow runs only after
\* get_active_key returned None, and a query that did not raise returned
\* None only from a table without an active row
C23_OnlyAfterNone ==
    prov.result = "running" =>
        /\ acquired = [pool |-> "transcript", key |-> NoKey]
        /\ prov.query_ok => ActiveIds(api_keys) = {}

\* C24: the steps of a call are executed in the order mailbox, register,
\* login, send code, retrieve code, verify, fetch key, persist, none of
\* them twice, and a step is executed only after every earlier step of the
\* call succeeded.
C24_StepsInOrder ==
    /\ Len(prov.steps) <= Len(StepOrder)
    /\ \A i \in 1..Len(prov.steps) :
           /\ prov.steps[i].step = StepOrder[i]
           /\ i < Len(prov.steps) => prov.steps[i].ok

\* a call went through all eight steps and returned the new row
C24_Witness ==
    /\ prov.result = "key" /\ Len(prov.steps) = Len(StepOrder)
    /\ prov.after # prov.before

\* C25: the secondary mailbox provider is asked exactly when the primary
\* one failed to create a mailbox; the code is retrieved along the path of
\* the provider that supplied the mailbox; and a retrieval that failed
\* ends the call, so the other provider's path is never tried after it.
C25_MailboxProviderAndPath ==
    /\ prov.secondary # "none" => prov.primary = "failed"
    /\ prov.primary = "failed" /\ pc # "prov_mailbox2" => prov.secondary # "none"
    /\ prov.use_testmail <=> prov.secondary = "ok"
    /\ prov.path = "primary" => prov.primary = "ok"
    /\ prov.path = "secondary" => prov.secondary = "ok"
    /\ \A i \in 1..Len(prov.steps) :
           prov.steps[i].step = "retrieve_code" /\ ~prov.steps[i].ok
               => i = Len(prov.steps) /\ prov.result \in {"None", "raised"}

\* the primary provider failed, the mailbox came from the secondary one,
\* and the retrieval along the secondary path failed and ended the call
C25_Witness ==
    /\ prov.primary = "failed" /\ prov.secondary = "ok" /\ prov.path = "secondary"
    /\ Len(prov.steps) = 5 /\ ~prov.steps[5].ok
    /\ prov.result = "None"

----------------------------------------------------------------------------
(* Claims on the retry budgets *)

\* C26: every retry path has a budget: a call of call_gemini_api sends at
\* most MAX_GEMINI_RETRIES requests to the primary provider, an analysis
\* calls call_gemini_api at most max_retries times, a transcript fetch makes
\* at most max_attempts attempts, and, every external call returning, an
\* item whose processing began is returned to main.
C26_RetriesBoundedItemTerminates ==
    /\ [](obs.callReqs <= MAX_GEMINI_RETRIES)
    /\ [](caller = "analysis" => obs.chainCalls <= max_retries)
    /\ [](attempt < max_attempts)
    /\ (pc = "psv_begin") ~> (pc = "psv_ret")

\* a call used its whole budget of requests, in the last call the analysis
\* may make
C26_Witness ==
    /\ caller = "analysis" /\ obs.chainCalls = max_retries
    /\ obs.callReqs = MAX_GEMINI_RETRIES

----------------------------------------------------------------------------
(* Claims on the temporary files and on the commits *)

\* C27: whatever way the processing of an item ended, its downloaded video
\* and its clips are gone when main is between items: before the next
\* item begins and when the run is over.
C27_NoFilesBetweenItems ==
    pc \in {"idle", "loop", "psv_begin"} => files = NoFiles

\* the second item begins after the first ended in the exception handler
\* with its video downloaded
C27_Witness ==
    /\ pc = "psv_begin" /\ item_i = 2 /\ files = NoFiles
    /\ pv[pending_videos[1]].download_status = "completed"
    /\ pv[pending_videos[1]].analysis_status = "completed"
    /\ pv[pending_videos[1]].conversion_status = "pending"

\* An external step is about to begin or is under way: the transcript
\* fetch, the download, a request of the availability check or of the
\* analysis, a cut, an upload
ExternalStep == pc \in {"fetch", "download", "gemini", "cut", "upload"}

\* C28: every change of a phase status is committed before the next
\* external step begins: while an external step runs, the stored rows are
\* the rows of the session, so a crash loses no status that was set.
C28_StatusCommittedBeforeExternalStep ==
    ExternalStep => db = pv

\* the uploads begin with the conversion and the number of clips stored
C28_Witness ==
    /\ pc = "upload" /\ up_i = 1
    /\ db[Cur].conversion_status = "completed" /\ db[Cur].shorts_count = Len(created_shorts)
    /\ db[Cur].analysis_status = "completed" /\ db[Cur].download_status = "completed"

----------------------------------------------------------------------------
(* Claims on callers at once *)

\* C29: with several callers on one key manager, a caller whose request was
\* answered with a credential-fatal status has, when its call is over, the
\* key it sent disabled, and every key disabled was sent by a caller that
\* was answered so.
C29_FailureDisablesUsedKey ==
    /\ \A w \in Workers :
           workers[w].pc = "done" /\ workers[w].fatal # NoKey
               => workers[w].fatal \notin Range(keys)
    /\ \A k \in disabled_log.ai : \E w \in Workers : workers[w].fatal = k

\* C30: with several callers on one store, at most one of them is inside
\* auto_register_and_save_key at any time.
C30_OneProvisioningAtATime ==
    Cardinality({w \in Workers : workers[w].pc = "provisioning"}) <= 1

----------------------------------------------------------------------------
(* Claims on the rotation of the Gemini keys *)

\* current_index after n calls of rotate_key
RECURSIVE Rotations(_, _, _)
Rotations(ks, idx, n) ==
    IF n = 0 THEN idx ELSE rotate_key(ks, Rotations(ks, idx, n - 1))

\* the key get_current_key returns after n calls of rotate_key
Selected(ks, idx, n) == get_current_key(ks, Rotations(ks, idx, n)).key

\* C31: selection is round-robin: from any working set of K keys and any
\* pointer the key manager reaches, K calls of rotate_key with no disable
\* between select K different keys, that is each key of the set once, and
\* leave the pointer where it was.
C31_RoundRobin ==
    LET K == Len(keys)
    IN K > 0 =>
        /\ current_index \in 0..(K - 1)
        /\ {Selected(keys, current_index, n) : n \in 1..K} = Range(keys)
        /\ \A m, n \in 1..K : m # n =>
               Selected(keys, current_index, m) # Selected(keys, current_index, n)
        /\ Rotations(keys, current_index, K) = current_index
        /\ Selected(keys, current_index, K) = Selected(keys, current_index, 0)

\* a key manager with every configured key, after operations on it, its
\* pointer not on the first key
C31_Witness ==
    /\ pc = "pools_ai" /\ ops > 0
    /\ Len(keys) = NumGeminiKeys /\ current_index = Len(keys) - 1

\* analyze_transcript holds a response of the primary provider and has a
\* retry left
RetryLeft == pc = "analyze" /\ response.ok /\ an_attempt < max_retries - 1

\* the text is not JSON / the text is JSON with segments none of which is
\* accepted
JsonFailure(r) == r.cand /\ ~IsJson(r.text)

ValidationFailure(r) ==
    r.cand /\ IsJson(r.text) /\ HasSegments(r.text) /\ parse_gemini_response(r) = <<>>

\* C32: in analyze_transcript a response whose text is not JSON rotates the
\* key before the retry, and a response that parses but has no segment
\* passing the validation leaves the rotation pointer where it is.
C32_RotationOnParseFailureOnly ==
    [][RetryLeft =>
          /\ JsonFailure(response) => current_index' = rotate_key(keys, current_index)
          /\ ValidationFailure(response) => current_index' = current_index]_vars

\* C32, the part that the code keeps: a text that is not JSON rotates the
\* key before the retry
C32_RotationOnParseFailure ==
    [][RetryLeft /\ JsonFailure(response)
          => current_index' = rotate_key(keys, current_index)]_vars

----------------------------------------------------------------------------
(* Claims on the transcript fetch of an item *)

\* C33: when process_single_video has returned for an item, on whatever
\* path, the committed download_status of the item is not 'pending', so the
\* query of a later run does not select the item again.
C33_ReturnedItemNotPending ==
    pc = "psv_ret" => db[Cur].download_status # "pending"

\* C33, the part that the code keeps: an item that returned without an
\* exception is not pending
C33_ReturnedWithoutExceptionNotPending ==
    pc = "psv_ret" /\ stats.error # "exception" => db[Cur].download_status # "pending"


\* C34: an item gets its no_transcript_videos row and its four phases
\* skipped only when the last transcript request was answered 404 or with an
\* empty transcript; never after a disabled credential, a failed
\* provisioning, a network error or another HTTP error.
C34_SkippedOnlyWhenNotFoundOrEmpty ==
    [][(/\ pc = "psv_transcript"
        /\ Cur \in no_transcript_videos'
        /\ Statuses(db'[Cur]) = AllSkipped) => NotFoundOrEmpty]_vars


----------------------------------------------------------------------------
(* Claims on the rotation of the GeminiKeyManager *)

\* The entry of the working set ks that follows the entry k
Follower(ks, k) ==
    LET p == CHOOSE j \in 1..Len(ks) : ks[j] = k
    IN ks[(p % Len(ks)) + 1]

\* The request of this step of call_gemini_api got a credential-fatal
\* response while two other keys or more were in the working set
FatalWithTwoOthers ==
    /\ pc = "gemini"
    /\ obs'.callReqs = obs.callReqs + 1
    /\ CredentialFatalAI(obs'.last)
    /\ Len(keys) >= 3

\* C35: after a credential-fatal response to the current key of a working
\* set with two other keys or more, that key is removed and the
\* call goes on with the key that followed it in the working set.
C35_NextAfterFatalIsFollower ==
    [][FatalWithTwoOthers =>
          /\ pc' = "gemini"
          /\ Range(keys') = Range(keys) \ {obs'.last.used}
          /\ get_current_key(keys', current_index').key = Follower(keys, obs'.last.used)]_vars

\* C35, the sequence of lines 345-349 taken alone: disable_current_key and
\* then rotate_key select the key that followed the disabled one.  This does
\* not hold either: the pop leaves the pointer on that key and rotate_key
\* moves past it.
C35_DisableThenRotateSelectsFollower ==
    (pc = "gemini" /\ Len(keys) >= 3) =>
        LET g == get_current_key(keys, current_index)
            d == disable_current_key(keys, g.current_index)
        IN get_current_key(d.keys, rotate_key(d.keys, d.current_index)).key
             = Follower(keys, g.key)


----------------------------------------------------------------------------
(* Claims on the transcript credentials *)

FatalTranscript == tlast.kind = "http" /\ tlast.status \in {401, 402, 403, 429}

C36_WitnessProvisioning ==
    /\ pc = "psv_transcript"
    /\ tlast.provisionings = max_attempts
    /\ tlast.requests = 0


\* The request of the last iteration ended with a non-empty transcript or a 404
Counted(t) == t.kind = "transcript" \/ (t.kind = "http" /\ t.status = 404)

----------------------------------------------------------------------------
(* Claims on the upload step *)

\* C38: when process_single_video has returned, every clip that was put to
\* R2 has a committed videos row.
C38_UploadedHasRecord ==
    pc = "psv_ret" =>
        \A u \in uploaded : \E v \in videos : v.item = u[1] /\ v.n = u[2]

\* C38, second half: a commit writes videos rows of the current item only.
\* With two items and more this does not hold either: the rows the handler
\* of lines 820-823 leaves in the session are written by the first commit
\* of the next item (line 642).
C38_RecordCommittedByItsItem ==
    [][\A v \in videos' \ videos : v.item = Cur]_vars


----------------------------------------------------------------------------
(* Claims on save_videos_to_db *)

Counted3(c) == c.inserted + c.skipped + c.failed

UniqueVideoIds(table) ==
    \A a, b \in 1..Len(table) : a # b => table[a].video_id # table[b].video_id

\* C39, as stated: the second save of the same list inserts nothing.
C39_SecondSaveInsertsNothing ==
    save.pass = 2 => save.stats.inserted = 0

\* C39: in save_videos_to_db every video of the list is counted once as
\* inserted, skipped or failed; no two rows of playlist_videos have the same
\* video_id; a row that exists is left as it is; and the second save of the
\* same list inserts only videos whose save failed in the first, so none
\* when the first reported no failure.
C39_SaveCountsKeepsAndRepeats ==
    [][/\ Counted3(save'.stats) = save'.i - 1
       /\ pc' = "saved" =>
             /\ Counted3(save'.stats) = Len(save'.videos)
             /\ Counted3(save'.first) = Len(save'.videos)
       /\ UniqueVideoIds(save'.table)
       /\ Len(save'.table) >= Len(save.table)
       /\ \A j \in 1..Len(save.table) : save'.table[j] = save.table[j]
       /\ save'.pass = 2 => save'.stats.inserted <= save'.first.failed]_vars

\* A processed video and one whose first save failed: the second save
\* skips the one and inserts the other
C39_Witness ==
    /\ pc = "saved"
    /\ save.first = [inserted |-> 0, skipped |-> 1, failed |-> 1]
    /\ save.stats = [inserted |-> 1, skipped |-> 1, failed |-> 0]
    /\ Len(save.table) = 2
    /\ save.table[1].task = DoneTask /\ save.table[2].task = NewTask


----------------------------------------------------------------------------
(* Claims on the pointer of the GeminiKeyManager *)

ValidIndex(ks, idx) == IF Len(ks) = 0 THEN idx = 0 ELSE idx \in 0..(Len(ks) - 1)

====
